---- MODULE Spec2Model ----
(***************************************************************************)
(* Model of the pg_backup_ctl++ catalog command layer (commands.cxx),     *)
(* the base-backup orchestrator and the descriptors they use.             *)
(*                                                                         *)
(* A command's execute() is translated call by call.  Every catalog or    *)
(* stream call can fail (fault injection); C++ exception flow is made     *)
(* explicit: an operator returns Res(cat, exc, val), where exc is the     *)
(* exception in flight (NoErr when none).                                  *)
(***************************************************************************)
EXTENDS Integers, Sequences, FiniteSets, TLC

(***************************************************************************)
(* Bounds of the model.                                                    *)
(***************************************************************************)
MaxCalls == 6       \* a step's fault hits one of its first MaxCalls calls
MaxDirs == 2        \* backup directories created on disk
MaxBackups == 1     \* base backups registered in the catalog
MaxTablespaces == 2 \* tablespaces the stream announces for one backup
MaxRunCalls == 30   \* a whole START BASEBACKUP makes at most MaxRunCalls calls
MaxWorkers == 2     \* worker processes alive at a time
MaxVbufs == 2       \* vectored buffers allocated for a ring
MaxRequests == 2    \* vectored requests submitted to a ring between setup() and exit()

Names == {"A", "B"}                  \* archive names
Dirs == {"/a", "/b"}                 \* archive directories

(***************************************************************************)
(* Column identifiers of the archive relation (affected attributes).      *)
(***************************************************************************)
SQL_ARCHIVE_NAME_ATTNO == 1
SQL_ARCHIVE_DIRECTORY_ATTNO == 2
SQL_ARCHIVE_COMPRESSION_ATTNO == 3

CONNECTION_TYPE_BASEBACKUP == "basebackup"
CONNECTION_TYPE_STREAMER == "streamer"
CONNECTION_TYPE_UNKNOWN == "unknown"

BASEBACKUP_STATUS_IN_PROGRESS == "in progress"
BASEBACKUP_STATUS_ABORTED == "aborted"
BASEBACKUP_STATUS_READY == "ready"

(***************************************************************************)
(* Exceptions.  kind is the dynamic type of the exception object, msg its *)
(* what() text (kept as a tuple of its parts).                             *)
(***************************************************************************)
NoErr == [raised |-> FALSE, kind |-> "", msg |-> <<>>]
Err(k, m) == [raised |-> TRUE, kind |-> k, msg |-> m]
CCatalogIssue(m) == Err("CCatalogIssue", m)
CArchiveIssue(m) == Err("CArchiveIssue", m)
StreamingFailure(m) == Err("StreamingFailure", m)

\* `throw e;' with e bound as CPGBackupCtlFailure& copy-constructs a new
\* exception object from the static type of e: the text is copied, the
\* dynamic type of the original is lost.
Rethrow(e) == Err("CPGBackupCtlFailure", e.msg)

\* `throw e;' with e bound as std::exception&: std::exception carries no text.
RethrowStd(e) == Err("std::exception", <<>>)

Res(c, e, v) == [cat |-> c, exc |-> e, val |-> v]
Nil == <<>>

\* sequencing: run F on the catalog unless an exception is already in flight
Then(r, F(_)) == IF r.exc.raised THEN r ELSE F(r)

(***************************************************************************)
(* Descriptors.                                                            *)
(***************************************************************************)
ConnectionDescr == [archive_id |-> -1, type |-> CONNECTION_TYPE_UNKNOWN, pghost |-> ""]

CatalogDescr ==
  [id |-> -1, archive_name |-> "", directory |-> "", compression |-> FALSE,
   coninfo |-> ConnectionDescr, affectedAttributes |-> {}]

\* CatalogDescr::setArchiveId
setArchiveId(d, id) == [d EXCEPT !.id = id, !.coninfo.archive_id = id]

\* the columns of a backup profile, named as its fields
SQL_BCK_PROF_NAME_ATTNO == "name"
SQL_BCK_PROF_COMPRESS_TYPE_ATTNO == "compress_type"
SQL_BCK_PROF_MAX_RATE_ATTNO == "max_rate"
SQL_BCK_PROF_LABEL_ATTNO == "label"
SQL_BCK_PROF_FAST_CHKPT_ATTNO == "fast_checkpoint"
SQL_BCK_PROF_INCL_WAL_ATTNO == "include_wal"
SQL_BCK_PROF_WAIT_FOR_WAL_ATTNO == "wait_for_wal"
SQL_BCK_PROF_NOVERIFY_CHECKSUMS_ATTNO == "noverify_checksums"

ProfileFields ==
  {SQL_BCK_PROF_NAME_ATTNO, SQL_BCK_PROF_COMPRESS_TYPE_ATTNO, SQL_BCK_PROF_MAX_RATE_ATTNO,
   SQL_BCK_PROF_LABEL_ATTNO, SQL_BCK_PROF_FAST_CHKPT_ATTNO, SQL_BCK_PROF_INCL_WAL_ATTNO,
   SQL_BCK_PROF_WAIT_FOR_WAL_ATTNO, SQL_BCK_PROF_NOVERIFY_CHECKSUMS_ATTNO}

BackupProfileDescr ==
  [affectedAttributes |-> {},
   profile_id |-> -1, name |-> "", compress_type |-> "none", max_rate |-> 0,
   label |-> "PG_BCK_CTL BASEBACKUP", fast_checkpoint |-> FALSE, include_wal |-> FALSE,
   wait_for_wal |-> TRUE, noverify_checksums |-> FALSE]

\* PushableCols::setAffectedAttributes
setAffectedAttributes(d, attrs) == [d EXCEPT !.affectedAttributes = attrs]

\* what a command says about a profile besides its name: the fields the parser
\* has set and the affected attributes it has pushed
Settings(ct, rate, label, fast, incl, wait, noverify, attrs) ==
  [affectedAttributes |-> attrs,
   compress_type |-> ct, max_rate |-> rate, label |-> label,
   fast_checkpoint |-> fast, include_wal |-> incl,
   wait_for_wal |-> wait, noverify_checksums |-> noverify]

NoSettings ==
  Settings("none", 0, "PG_BCK_CTL BASEBACKUP", FALSE, FALSE, TRUE, FALSE, {})

\* the descriptor of the profile named name with these settings
ProfileOf(name, st) ==
  [affectedAttributes |-> st.affectedAttributes,
   profile_id |-> -1, name |-> name, compress_type |-> st.compress_type,
   max_rate |-> st.max_rate, label |-> st.label, fast_checkpoint |-> st.fast_checkpoint,
   include_wal |-> st.include_wal, wait_for_wal |-> st.wait_for_wal,
   noverify_checksums |-> st.noverify_checksums]

\* the command object: a CatalogDescr plus the catalog handle and profile
Command(hasCatalog, name, directory, compression, type, pghost, attrs, profile) ==
  [id |-> CatalogDescr.id, archive_name |-> name, directory |-> directory,
   compression |-> compression,
   coninfo |-> [CatalogDescr.coninfo EXCEPT !.type = type, !.pghost = pghost],
   affectedAttributes |-> attrs, hasCatalog |-> hasCatalog,
   backup_profile |-> ProfileOf(profile[1], profile[2])]

(***************************************************************************)
(* The catalog store.  db is the content of the catalog database, saved   *)
(* the content a rollback returns to.  log is the sequence of calls the   *)
(* running command made so far, viol the transaction-protocol violations  *)
(* it committed; F is the set of call indexes that fail in this step and  *)
(* faulted tells whether one did; dirs are the backup directories on disk.*)
(***************************************************************************)
EmptyDb ==
  [archives |-> {}, conns |-> {}, profiles |-> {}, backups |-> {}, tablespaces |-> {}]

DefaultProfile == [BackupProfileDescr EXCEPT !.profile_id = 1, !.name = "default"]

InitialDb == [EmptyDb EXCEPT !.profiles = {DefaultProfile}]

NewCatalog(strict) ==
  [avail |-> FALSE, created |-> FALSE, intx |-> FALSE, mine |-> FALSE, strict |-> strict,
   db |-> EmptyDb, saved |-> EmptyDb,
   log |-> <<>>, viol |-> {}, F |-> {}, faulted |-> FALSE, dirs |-> {}]

Logged(c, name) == [c EXCEPT !.log = Append(@, name)]
Faulty(c) == (Len(c.log) + 1) \in c.F
Failed(c, name) == [Logged(c, name) EXCEPT !.faulted = TRUE]
Fault(c, name) == Res(Failed(c, name), CCatalogIssue(<<name, "failed">>), Nil)

FreeId(used) == CHOOSE i \in 1..(Cardinality(used) + 1) : i \notin used

available(c) == c.avail

open_rw(c) ==
  Res([Logged(c, "open_rw") EXCEPT !.avail = TRUE, !.created = TRUE,
         !.db = IF c.created THEN c.db ELSE InitialDb],
      NoErr, Nil)

close(c) ==
  Res([Logged(c, "close") EXCEPT !.avail = FALSE, !.intx = FALSE, !.mine = FALSE,
         !.db = IF c.intx THEN c.saved ELSE c.db, !.saved = EmptyDb],
      NoErr, Nil)

startTransaction(c) ==
  IF Faulty(c) THEN Fault(c, "startTransaction")
  ELSE IF c.intx
  THEN LET c1 == [Logged(c, "startTransaction") EXCEPT
                    !.viol = @ \cup {IF c.mine THEN "start inside own transaction"
                                               ELSE "start inside inherited transaction"}]
       IN  IF c.strict
           THEN Res(c1, CCatalogIssue(<<"startTransaction", "transaction already open">>), Nil)
           ELSE Res([c1 EXCEPT !.mine = TRUE], NoErr, Nil)
  ELSE Res([Logged(c, "startTransaction") EXCEPT !.intx = TRUE, !.mine = TRUE, !.saved = c.db],
           NoErr, Nil)

commitTransaction(c) ==
  IF Faulty(c) THEN Fault(c, "commitTransaction")
  ELSE IF ~c.intx
  THEN LET c1 == [Logged(c, "commitTransaction") EXCEPT !.viol = @ \cup {"commit without transaction"}]
       IN  IF c.strict
           THEN Res(c1, CCatalogIssue(<<"commitTransaction", "no transaction">>), Nil)
           ELSE Res(c1, NoErr, Nil)
  ELSE Res([Logged(c, "commitTransaction") EXCEPT !.intx = FALSE, !.mine = FALSE,
              !.saved = EmptyDb],
           NoErr, Nil)

rollbackTransaction(c) ==
  IF ~c.intx
  THEN LET c1 == [Logged(c, "rollbackTransaction") EXCEPT !.viol = @ \cup {"rollback without transaction"}]
       IN  IF c.strict
           THEN Res(c1, CCatalogIssue(<<"rollbackTransaction", "no transaction">>), Nil)
           ELSE Res(c1, NoErr, Nil)
  ELSE Res([Logged(c, "rollbackTransaction") EXCEPT !.intx = FALSE, !.mine = FALSE,
              !.db = c.saved, !.saved = EmptyDb],
           NoErr, Nil)

ArchiveAsDescr(a) ==
  [CatalogDescr EXCEPT !.id = a.id, !.archive_name = a.name, !.directory = a.directory,
                       !.compression = a.compression]

exists(c, directory) ==
  IF Faulty(c) THEN Fault(c, "exists")
  ELSE LET m == {a \in c.db.archives : a.directory = directory}
       IN  Res(Logged(c, "exists"), NoErr,
               IF m = {} THEN CatalogDescr ELSE ArchiveAsDescr(CHOOSE a \in m : TRUE))

existsByName(c, name) ==
  IF Faulty(c) THEN Fault(c, "existsByName")
  ELSE LET m == {a \in c.db.archives : a.name = name}
       IN  Res(Logged(c, "existsByName"), NoErr,
               IF m = {} THEN CatalogDescr ELSE ArchiveAsDescr(CHOOSE a \in m : TRUE))

createArchive(c, d) ==
  IF Faulty(c) THEN Fault(c, "createArchive")
  ELSE IF \E a \in c.db.archives : a.name = d.archive_name \/ a.directory = d.directory
  THEN Res(Logged(c, "createArchive"), CCatalogIssue(<<"createArchive", "constraint">>), Nil)
  ELSE LET id == FreeId({a.id : a \in c.db.archives})
           row == [id |-> id, name |-> d.archive_name, directory |-> d.directory,
                   compression |-> d.compression]
       IN  Res([Logged(c, "createArchive") EXCEPT !.db.archives = @ \cup {row}],
               NoErr, setArchiveId(d, id))

updateArchiveAttributes(c, d, attrs) ==
  IF Faulty(c) THEN Fault(c, "updateArchiveAttributes")
  ELSE LET old == {a \in c.db.archives : a.id = d.id}
           upd(a) == [a EXCEPT
                        !.name = IF SQL_ARCHIVE_NAME_ATTNO \in attrs THEN d.archive_name ELSE @,
                        !.directory = IF SQL_ARCHIVE_DIRECTORY_ATTNO \in attrs THEN d.directory ELSE @,
                        !.compression = IF SQL_ARCHIVE_COMPRESSION_ATTNO \in attrs THEN d.compression ELSE @]
           rest == c.db.archives \ old
           new == {upd(a) : a \in old}
       IN  IF \E a \in new, b \in rest : a.name = b.name \/ a.directory = b.directory
           THEN Res(Logged(c, "updateArchiveAttributes"),
                    CCatalogIssue(<<"updateArchiveAttributes", "constraint">>), Nil)
           ELSE Res([Logged(c, "updateArchiveAttributes") EXCEPT !.db.archives = rest \cup new],
                    NoErr, Nil)

\* a DELETE of the archive row alone, without the cascade to its dependants
dropArchiveRowOnly(c, name) ==
  IF Faulty(c) THEN Fault(c, "dropArchive")
  ELSE Res([Logged(c, "dropArchive") EXCEPT !.db.archives = {a \in @ : a.name # name}],
           NoErr, Nil)

dropArchive(c, name) ==
  IF Faulty(c) THEN Fault(c, "dropArchive")
  ELSE LET gone == {a.id : a \in {x \in c.db.archives : x.name = name}}
           bgone == {b.id : b \in {x \in c.db.backups : x.archive_id \in gone}}
       IN  Res([Logged(c, "dropArchive") EXCEPT
                  !.db.archives = {a \in @ : a.id \notin gone},
                  !.db.conns = {k \in @ : k.archive_id \notin gone},
                  !.db.backups = {b \in @ : b.archive_id \notin gone},
                  !.db.tablespaces = {t \in @ : t.backup_id \notin bgone}],
               NoErr, Nil)

createCatalogConnection(c, con) ==
  IF Faulty(c) THEN Fault(c, "createCatalogConnection")
  ELSE IF \/ \E k \in c.db.conns : k.archive_id = con.archive_id /\ k.type = con.type
          \/ ~\E a \in c.db.archives : a.id = con.archive_id
  THEN Res(Logged(c, "createCatalogConnection"),
           CCatalogIssue(<<"createCatalogConnection", "constraint">>), Nil)
  ELSE Res([Logged(c, "createCatalogConnection") EXCEPT
              !.db.conns = @ \cup {[archive_id |-> con.archive_id, type |-> con.type,
                                    pghost |-> con.pghost]}],
           NoErr, Nil)

\* fills the provided descriptor; archive_id = -1 when there is no such row
getCatalogConnection(c, con, archive_id, type) ==
  IF Faulty(c) THEN Fault(c, "getCatalogConnection")
  ELSE LET m == {k \in c.db.conns : k.archive_id = archive_id /\ k.type = type}
       IN  Res(Logged(c, "getCatalogConnection"), NoErr,
               IF m = {} THEN [con EXCEPT !.archive_id = -1]
               ELSE LET k == CHOOSE k \in m : TRUE
                    IN  [con EXCEPT !.archive_id = k.archive_id, !.type = k.type,
                                    !.pghost = k.pghost])

dropCatalogConnection(c, name, type) ==
  IF Faulty(c) THEN Fault(c, "dropCatalogConnection")
  ELSE LET ids == {a.id : a \in {x \in c.db.archives : x.name = name}}
       IN  Res([Logged(c, "dropCatalogConnection") EXCEPT
                  !.db.conns = {k \in @ : ~(k.archive_id \in ids /\ k.type = type)}],
               NoErr, Nil)

getArchiveList(c) ==
  IF Faulty(c) THEN Fault(c, "getArchiveList")
  ELSE Res(Logged(c, "getArchiveList"), NoErr, c.db.archives)

statCatalog(c, name) ==
  IF Faulty(c) THEN Fault(c, "statCatalog")
  ELSE Res(Logged(c, "statCatalog"), NoErr,
           {b \in c.db.backups : \E a \in c.db.archives : a.name = name /\ a.id = b.archive_id})

\* returns a descriptor with profile_id = -1 when the name is unknown
getBackupProfile(c, name) ==
  IF Faulty(c) THEN Fault(c, "getBackupProfile")
  ELSE LET m == {p \in c.db.profiles : p.name = name}
       IN  Res(Logged(c, "getBackupProfile"), NoErr,
               IF m = {} THEN BackupProfileDescr ELSE CHOOSE p \in m : TRUE)

getBackupProfiles(c) ==
  IF Faulty(c) THEN Fault(c, "getBackupProfiles")
  ELSE Res(Logged(c, "getBackupProfiles"), NoErr, c.db.profiles)

\* the INSERT names the affected attributes only; every other column gets its
\* default
InsertedProfile(p, id) ==
  LET col(f) == IF f \in p.affectedAttributes THEN p[f] ELSE BackupProfileDescr[f]
  IN  [affectedAttributes |-> {},
       profile_id |-> id, name |-> col(SQL_BCK_PROF_NAME_ATTNO),
       compress_type |-> col(SQL_BCK_PROF_COMPRESS_TYPE_ATTNO),
       max_rate |-> col(SQL_BCK_PROF_MAX_RATE_ATTNO),
       label |-> col(SQL_BCK_PROF_LABEL_ATTNO),
       fast_checkpoint |-> col(SQL_BCK_PROF_FAST_CHKPT_ATTNO),
       include_wal |-> col(SQL_BCK_PROF_INCL_WAL_ATTNO),
       wait_for_wal |-> col(SQL_BCK_PROF_WAIT_FOR_WAL_ATTNO),
       noverify_checksums |-> col(SQL_BCK_PROF_NOVERIFY_CHECKSUMS_ATTNO)]

createBackupProfile(c, p) ==
  IF Faulty(c) THEN Fault(c, "createBackupProfile")
  ELSE IF \E q \in c.db.profiles : q.name = p.name
  THEN Res(Logged(c, "createBackupProfile"),
           CCatalogIssue(<<"createBackupProfile", "constraint">>), Nil)
  ELSE Res([Logged(c, "createBackupProfile") EXCEPT
              !.db.profiles = @ \cup {InsertedProfile(p, FreeId({q.profile_id : q \in c.db.profiles}))}],
           NoErr, Nil)

dropBackupProfile(c, name) ==
  IF Faulty(c) THEN Fault(c, "dropBackupProfile")
  ELSE Res([Logged(c, "dropBackupProfile") EXCEPT !.db.profiles = {p \in @ : p.name # name}],
           NoErr, Nil)

\* BackupDirectory::verify(): filesystem integrity check of the archive directory
verify(c, directory) ==
  IF Faulty(c) THEN Res(Failed(c, "verify"), CArchiveIssue(<<"verify", "failed">>), Nil)
  ELSE Res(Logged(c, "verify"), NoErr, Nil)

\* a column that has not been written: the empty string of the descriptor
Unset == 0
\* the time of the call the command is about to make and the position the
\* server's log has reached by then: both only move forward, call by call
Clock(c) == Len(c.log) + 1

\* assigns the id; the row starts out "in progress"
\* a store that registers a base backup without looking for its archive
registerBasebackupUnchecked(c, archive_id, descr) ==
  IF Faulty(c) THEN Fault(c, "registerBasebackup")
  ELSE LET id == FreeId({b.id : b \in c.db.backups})
           row == [id |-> id, archive_id |-> archive_id, fsentry |-> descr.fsentry,
                   status |-> BASEBACKUP_STATUS_IN_PROGRESS,
                   started |-> Clock(c), stopped |-> Unset,
                   xlogpos |-> descr.xlogpos, xlogposend |-> Unset]
       IN  Res([Logged(c, "registerBasebackup") EXCEPT !.db.backups = @ \cup {row}],
               NoErr, [descr EXCEPT !.id = id])

registerBasebackup(c, archive_id, descr) ==
  IF Faulty(c) THEN Fault(c, "registerBasebackup")
  ELSE IF ~\E a \in c.db.archives : a.id = archive_id
  THEN Res(Logged(c, "registerBasebackup"),
           CCatalogIssue(<<"registerBasebackup", "constraint">>), Nil)
  ELSE LET id == FreeId({b.id : b \in c.db.backups})
           row == [id |-> id, archive_id |-> archive_id, fsentry |-> descr.fsentry,
                   status |-> BASEBACKUP_STATUS_IN_PROGRESS,
                   started |-> Clock(c), stopped |-> Unset,
                   xlogpos |-> descr.xlogpos, xlogposend |-> Unset]
       IN  Res([Logged(c, "registerBasebackup") EXCEPT !.db.backups = @ \cup {row}],
               NoErr, [descr EXCEPT !.id = id])

abortBasebackup(c, descr) ==
  IF Faulty(c) THEN Fault(c, "abortBasebackup")
  ELSE Res([Logged(c, "abortBasebackup") EXCEPT
              !.db.backups = {IF b.id = descr.id
                              THEN [b EXCEPT !.status = BASEBACKUP_STATUS_ABORTED]
                              ELSE b : b \in @}],
           NoErr, Nil)

finalizeBasebackup(c, descr) ==
  IF Faulty(c) THEN Fault(c, "finalizeBasebackup")
  ELSE Res([Logged(c, "finalizeBasebackup") EXCEPT
              !.db.backups = {IF b.id = descr.id
                              THEN [b EXCEPT !.status = BASEBACKUP_STATUS_READY,
                                             !.stopped = Clock(c),
                                             !.xlogposend = descr.xlogposend]
                              ELSE b : b \in @}],
           NoErr, Nil)

registerTablespaceForBackup(c, ts) ==
  IF Faulty(c) THEN Fault(c, "registerTablespaceForBackup")
  ELSE IF ts.backup_id < 0 \/ ~\E b \in c.db.backups : b.id = ts.backup_id
  THEN Res(Logged(c, "registerTablespaceForBackup"),
           CCatalogIssue(<<"registerTablespaceForBackup", "constraint">>), Nil)
  ELSE Res([Logged(c, "registerTablespaceForBackup") EXCEPT !.db.tablespaces = @ \cup {ts}],
           NoErr, Nil)

(***************************************************************************)
(* The replication stream and the streaming directory: each call can fail *)
(* with its own kind of failure.                                           *)
(***************************************************************************)
StreamCall(c, name) ==
  IF Faulty(c) THEN Res(Failed(c, name), StreamingFailure(<<name, "failed">>), Nil)
  ELSE Res(Logged(c, name), NoErr, Nil)

\* StreamBaseBackup::initialize
initialize(c) ==
  IF Faulty(c) THEN Res(Failed(c, "initialize"), CArchiveIssue(<<"initialize", "failed">>), Nil)
  ELSE Res(Logged(c, "initialize"), NoErr, Nil)

\* StreamBaseBackup::create: a new backup directory under the archive root;
\* backupDirectoryString() is its path
create(c, directory) ==
  IF Faulty(c) THEN Res(Failed(c, "create"), CArchiveIssue(<<"create", "failed">>), Nil)
  ELSE LET path == <<directory, FreeId({d[2] : d \in c.dirs})>>
       IN  Res([Logged(c, "create") EXCEPT !.dirs = @ \cup {path}], NoErr, path)

BaseBackupDescr ==
  [id |-> -1, archive_id |-> -1, fsentry |-> <<>>, xlogpos |-> Unset,
   xlogposend |-> Unset]

(***************************************************************************)
(* The command layer.  XExecute(c, cmd, flag) is X::execute(flag) run on  *)
(* catalog c by command object cmd; its result carries the exception that *)
(* leaves execute(), if any.                                               *)
(***************************************************************************)

\* the test for the handle made after the catalog was opened
NoCatalogAfterOpen(c) ==
  Res(open_rw(c).cat, CArchiveIssue(<<"could not execute command: no catalog">>), Nil)

\* "Die hard in case no catalog available."
NoCatalog(c) == Res(c, CArchiveIssue(<<"could not execute command: no catalog">>), Nil)

\* if (!catalog->available()) catalog->open_rw();
Opened(c) == IF available(c) THEN c ELSE open_rw(c).cat

\* catch (CPGBackupCtlFailure& e) { ... throw e; } without a rollback
CatchRethrowOnly(r) ==
  IF ~r.exc.raised THEN r ELSE Res(r.cat, Rethrow(r.exc), Nil)

\* catch (CPGBackupCtlFailure& e) { catalog->rollbackTransaction(); throw e; }
\* An exception thrown by the rollback itself leaves the handler instead.
CatchRollbackRethrow(r) ==
  IF ~r.exc.raised THEN r
  ELSE LET rb == rollbackTransaction(r.cat)
       IN  IF rb.exc.raised THEN rb ELSE Res(rb.cat, Rethrow(r.exc), Nil)

\* catch (exception& e) { catalog->rollbackTransaction(); throw e; }
CatchStdRollbackRethrow(r) ==
  IF ~r.exc.raised THEN r
  ELSE LET rb == rollbackTransaction(r.cat)
       IN  IF rb.exc.raised THEN rb ELSE Res(rb.cat, RethrowStd(r.exc), Nil)

\* the try block without the test of what getCatalogConnection found
DropConnection_tryUnchecked(c, cmd) ==
  Then(existsByName(c, cmd.archive_name), LAMBDA r :
    IF r.val.id >= 0
    THEN Then(getCatalogConnection(r.cat, setArchiveId(cmd, r.val.id).coninfo, r.val.id,
                                   cmd.coninfo.type),
           LAMBDA q : dropCatalogConnection(q.cat, cmd.archive_name, cmd.coninfo.type))
    ELSE Res(r.cat, CCatalogIssue(<<"archive does not exist", cmd.archive_name>>), Nil))

DropConnection_try(c, cmd) ==
  Then(existsByName(c, cmd.archive_name), LAMBDA r :
    IF r.val.id >= 0
    THEN LET cmd1 == setArchiveId(cmd, r.val.id)
         IN  Then(getCatalogConnection(r.cat, cmd1.coninfo, cmd1.id, cmd1.coninfo.type),
               LAMBDA q :
                 IF q.val.archive_id < 0
                 THEN Res(q.cat, CCatalogIssue(<<"archive does not have a connection of type",
                                                 cmd.archive_name, cmd.coninfo.type>>), Nil)
                 ELSE dropCatalogConnection(q.cat, cmd.archive_name, q.val.type))
    ELSE Res(r.cat, CCatalogIssue(<<"archive does not exist", cmd.archive_name>>), Nil))

DropConnectionExecute(c, cmd, flag) ==
  IF ~cmd.hasCatalog THEN NoCatalog(c)
  ELSE Then(startTransaction(Opened(c)), LAMBDA s :
         Then(CatchRollbackRethrow(DropConnection_try(s.cat, cmd)), LAMBDA t :
           commitTransaction(t.cat)))

ListConnection_try(c, cmd) ==
  Then(existsByName(c, cmd.archive_name), LAMBDA r :
    IF r.val.id >= 0
    THEN getCatalogConnection(r.cat, ConnectionDescr, r.val.id, CONNECTION_TYPE_BASEBACKUP)
    ELSE Res(r.cat, CCatalogIssue(<<"archive does not exist", cmd.archive_name>>), Nil))

ListConnectionExecute(c, cmd, flag) ==
  IF ~cmd.hasCatalog THEN NoCatalog(c)
  ELSE Then(startTransaction(Opened(c)), LAMBDA s :
         Then(CatchRollbackRethrow(ListConnection_try(s.cat, cmd)), LAMBDA t :
           commitTransaction(t.cat)))

\* the try block without the look-up of a colliding connection
CreateConnection_tryUnchecked(c, cmd) ==
  Then(existsByName(c, cmd.archive_name), LAMBDA r :
    IF r.val.id < 0
    THEN Res(r.cat, CCatalogIssue(<<"archive does not exist", cmd.archive_name>>), Nil)
    ELSE Then(createCatalogConnection(r.cat, setArchiveId(cmd, r.val.id).coninfo), LAMBDA k :
           commitTransaction(k.cat)))

CreateConnection_try(c, cmd) ==
  Then(existsByName(c, cmd.archive_name), LAMBDA r :
    IF r.val.id < 0
    THEN Res(r.cat, CCatalogIssue(<<"archive does not exist", cmd.archive_name>>), Nil)
    ELSE LET cmd1 == setArchiveId(cmd, r.val.id)
         IN  Then(getCatalogConnection(r.cat, ConnectionDescr, r.val.id, cmd.coninfo.type),
               LAMBDA q :
                 IF q.val.archive_id >= 0 /\ q.val.type # CONNECTION_TYPE_UNKNOWN
                 THEN Res(q.cat, CCatalogIssue(<<"archive already has a connection of this type",
                                                 cmd.archive_name>>), Nil)
                 ELSE Then(createCatalogConnection(q.cat, cmd1.coninfo), LAMBDA k :
                        commitTransaction(k.cat))))

CreateConnectionExecute(c, cmd, flag) ==
  IF ~cmd.hasCatalog THEN NoCatalog(c)
  ELSE Then(startTransaction(Opened(c)), LAMBDA s :
         CatchRollbackRethrow(CreateConnection_try(s.cat, cmd)))

ListBackupCatalog_try(c, cmd) ==
  Then(startTransaction(c), LAMBDA s :
    Then(existsByName(s.cat, cmd.archive_name), LAMBDA r :
      IF r.val.id < 0
      THEN Res(r.cat, CCatalogIssue(<<"cannot stat catalog: archive does not exist",
                                      cmd.archive_name>>), Nil)
      ELSE Then(statCatalog(r.cat, cmd.archive_name), LAMBDA q :
             commitTransaction(q.cat))))

ListBackupCatalogExecute(c, cmd, flag) ==
  IF ~cmd.hasCatalog THEN NoCatalog(c)
  ELSE CatchRollbackRethrow(ListBackupCatalog_try(Opened(c), cmd))

DropBackupProfile_try(c, cmd) ==
  Then(startTransaction(c), LAMBDA s :
    Then(getBackupProfile(s.cat, cmd.backup_profile.name), LAMBDA r :
      IF r.val.profile_id < 0
      THEN Res(r.cat, CCatalogIssue(<<"backup profile", cmd.backup_profile.name>>), Nil)
      ELSE Then(dropBackupProfile(r.cat, cmd.backup_profile.name), LAMBDA q :
             commitTransaction(q.cat))))

DropBackupProfileExecute(c, cmd, flag) ==
  IF ~cmd.hasCatalog THEN NoCatalog(c)
  ELSE CatchStdRollbackRethrow(DropBackupProfile_try(Opened(c), cmd))

\* the lines "Property / Setting" of the details of a profile
ListBackupProfile_detail(profile) ==
  {<<"NAME", profile.name>>,
   <<"COMPRESSION", CASE profile.compress_type = "none" -> "NONE"
                      [] profile.compress_type = "gzip" -> "GZIP"
                      [] profile.compress_type = "zstd" -> "ZSTD"
                      [] OTHER -> "UNKNOWN or N/A">>,
   IF profile.max_rate > 0 THEN <<"MAX RATE", "NOT RATED">>
                           ELSE <<"MAX RATE(kbps)", profile.max_rate>>,
   <<"LABEL", profile.label>>,
   <<"FAST CHECKPOINT", profile.fast_checkpoint>>,
   <<"WAL INCLUDED", profile.include_wal>>,
   <<"WAIT FOR WAL", profile.wait_for_wal>>}

\* extended = TRUE stands for tag LIST_BACKUP_PROFILE_DETAIL; the value is
\* what has been printed
ListBackupProfile_try(c, cmd, extended) ==
  Then(startTransaction(c), LAMBDA s :
    Then(IF extended THEN getBackupProfile(s.cat, cmd.backup_profile.name)
                     ELSE getBackupProfiles(s.cat),
         LAMBDA r :
           Then(commitTransaction(r.cat), LAMBDA t :
             Res(t.cat, NoErr,
                 IF extended THEN ListBackupProfile_detail(r.val)
                 ELSE {<<descr.name, descr.label>> : descr \in r.val}))))

ListBackupProfileExecute(c, cmd, extended) ==
  IF ~cmd.hasCatalog THEN NoCatalog(c)
  ELSE CatchStdRollbackRethrow(ListBackupProfile_try(Opened(c), cmd, extended))

\* std::vector<int> attr of the try block
CreateBackupProfile_attr ==
  {SQL_BCK_PROF_NAME_ATTNO, SQL_BCK_PROF_COMPRESS_TYPE_ATTNO, SQL_BCK_PROF_MAX_RATE_ATTNO,
   SQL_BCK_PROF_LABEL_ATTNO, SQL_BCK_PROF_FAST_CHKPT_ATTNO, SQL_BCK_PROF_INCL_WAL_ATTNO,
   SQL_BCK_PROF_WAIT_FOR_WAL_ATTNO}

\* IF NOT EXISTS replaces the profile it finds
CreateBackupProfile_tryReplace(c, cmd, existsOk) ==
  Then(startTransaction(c), LAMBDA s :
    Then(getBackupProfile(s.cat, cmd.backup_profile.name), LAMBDA r :
      IF r.val.profile_id < 0
      THEN Then(createBackupProfile(r.cat, setAffectedAttributes(cmd.backup_profile,
                                                                 CreateBackupProfile_attr)),
             LAMBDA q : commitTransaction(q.cat))
      ELSE IF ~existsOk
      THEN Res(r.cat, CCatalogIssue(<<"backup profile already exists",
                                      cmd.backup_profile.name>>), Nil)
      ELSE Then(dropBackupProfile(r.cat, cmd.backup_profile.name), LAMBDA d :
             Then(createBackupProfile(d.cat, setAffectedAttributes(cmd.backup_profile,
                                                                   CreateBackupProfile_attr)),
               LAMBDA q : commitTransaction(q.cat)))))

CreateBackupProfile_try(c, cmd, existsOk) ==
  Then(startTransaction(c), LAMBDA s :
    Then(getBackupProfile(s.cat, cmd.backup_profile.name), LAMBDA r :
      IF r.val.profile_id < 0
      THEN Then(createBackupProfile(r.cat, setAffectedAttributes(cmd.backup_profile,
                                                                 CreateBackupProfile_attr)),
             LAMBDA q : commitTransaction(q.cat))
      ELSE IF ~existsOk
      THEN Res(r.cat, CCatalogIssue(<<"backup profile already exists",
                                      cmd.backup_profile.name>>), Nil)
      ELSE commitTransaction(r.cat)))

CreateBackupProfileExecute(c, cmd, existsOk) ==
  IF ~cmd.hasCatalog THEN NoCatalog(c)
  ELSE CatchRollbackRethrow(CreateBackupProfile_try(Opened(c), cmd, existsOk))

VerifyArchive_try(c, cmd) ==
  Then(startTransaction(c), LAMBDA s :
    Then(existsByName(s.cat, cmd.archive_name), LAMBDA r :
      IF r.val.id < 0
      THEN Res(r.cat, CCatalogIssue(<<"archive does not exist", cmd.archive_name>>), Nil)
      ELSE Then(verify(r.cat, r.val.directory), LAMBDA q :
             commitTransaction(q.cat))))

VerifyArchiveExecute(c, cmd, missingOK) ==
  IF ~cmd.hasCatalog THEN NoCatalog(c)
  ELSE CatchRollbackRethrow(VerifyArchive_try(Opened(c), cmd))

\* all three output modes fetch an archive list inside the transaction
ListArchive_try(c, cmd) ==
  Then(startTransaction(c), LAMBDA s : getArchiveList(s.cat))

ListArchiveExecute(c, cmd, extendedOutput) ==
  IF ~cmd.hasCatalog THEN NoCatalog(c)
  ELSE Then(CatchRollbackRethrow(ListArchive_try(Opened(c), cmd)), LAMBDA t :
         close(t.cat))

\* an ALTER ARCHIVE that lets a missing archive pass, asked to or not
AlterArchive_tryLenient(c, cmd, ignoreMissing) ==
  Then(existsByName(c, cmd.archive_name), LAMBDA r :
    IF r.val.id >= 0
    THEN Then(updateArchiveAttributes(r.cat, [cmd EXCEPT !.id = r.val.id],
                                      cmd.affectedAttributes),
           LAMBDA u : commitTransaction(u.cat))
    ELSE commitTransaction(r.cat))

AlterArchive_try(c, cmd, ignoreMissing) ==
  Then(existsByName(c, cmd.archive_name), LAMBDA r :
    IF r.val.id >= 0
    THEN Then(updateArchiveAttributes(r.cat, [cmd EXCEPT !.id = r.val.id],
                                      cmd.affectedAttributes),
           LAMBDA u : commitTransaction(u.cat))
    ELSE IF ~ignoreMissing
    THEN Res(r.cat, CArchiveIssue(<<"could not alter archive: archive name does not exists",
                                    cmd.archive_name>>), Nil)
    ELSE commitTransaction(r.cat))

AlterArchiveExecute(c, cmd, ignoreMissing) ==
  IF ~cmd.hasCatalog THEN NoCatalog(c)
  ELSE Then(startTransaction(Opened(c)), LAMBDA s :
         CatchRollbackRethrow(AlterArchive_try(s.cat, cmd, ignoreMissing)))

DropArchive_try(c, cmd, existsOk) ==
  Then(existsByName(c, cmd.archive_name), LAMBDA r :
    Then(IF r.val.id >= 0
         THEN dropArchive(r.cat, cmd.archive_name)
         ELSE IF ~existsOk
         THEN Res(r.cat, CArchiveIssue(<<"specified archive name does not exists",
                                         cmd.archive_name>>), Nil)
         ELSE Res(r.cat, NoErr, Nil),
      LAMBDA q :
        Then(dropArchive(q.cat, cmd.archive_name), LAMBDA z :
          commitTransaction(z.cat))))

DropArchiveExecute(c, cmd, existsOk) ==
  IF ~cmd.hasCatalog THEN NoCatalog(c)
  ELSE Then(startTransaction(Opened(c)), LAMBDA s :
         CatchRollbackRethrow(DropArchive_try(s.cat, cmd, existsOk)))

CreateArchive_try(c, cmd, temp_descr, existsOk) ==
  IF temp_descr.id < 0
  THEN Then(createArchive(c, cmd), LAMBDA a :
         LET td == [a.val EXCEPT !.coninfo.type = CONNECTION_TYPE_BASEBACKUP]
         IN  Then(createCatalogConnection(a.cat, td.coninfo), LAMBDA k :
               commitTransaction(k.cat)))
  ELSE IF ~existsOk
  THEN Res(c, CArchiveIssue(<<"archive already exists", cmd.directory>>), Nil)
  ELSE Then(startTransaction(c), LAMBDA s :
         Then(updateArchiveAttributes(s.cat, [cmd EXCEPT !.id = temp_descr.id],
                                      cmd.affectedAttributes),
           LAMBDA u : commitTransaction(u.cat)))

CreateArchiveExecute(c, cmd, existsOk) ==
  IF ~cmd.hasCatalog THEN NoCatalog(c)
  ELSE Then(startTransaction(Opened(c)), LAMBDA s :
         Then(exists(s.cat, cmd.directory), LAMBDA e :
           CatchRollbackRethrow(CreateArchive_try(e.cat, cmd, e.val, existsOk))))

(***************************************************************************)
(* StartBasebackupCatalogCommand::execute, block by block.                 *)
(***************************************************************************)
StartBasebackup_resolveArchive_try(c, cmd) ==
  Then(existsByName(c, cmd.archive_name), LAMBDA r :
    IF r.val.id >= 0
    THEN Then(getCatalogConnection(r.cat, r.val.coninfo, r.val.id, CONNECTION_TYPE_BASEBACKUP),
           LAMBDA q :
             Then(commitTransaction(q.cat), LAMBDA k :
               Res(k.cat, NoErr, [r.val EXCEPT !.coninfo = q.val])))
    ELSE Then(commitTransaction(r.cat), LAMBDA k : Res(k.cat, NoErr, r.val)))

\* the result's val is temp_descr
StartBasebackup_resolveArchive(c, cmd) ==
  IF ~cmd.hasCatalog THEN NoCatalog(c)
  ELSE Then(startTransaction(Opened(c)), LAMBDA s :
         Then(CatchRollbackRethrow(StartBasebackup_resolveArchive_try(s.cat, cmd)), LAMBDA t :
           IF t.val.id < 0
           THEN LET rb == rollbackTransaction(t.cat)
                IN  IF rb.exc.raised THEN rb
                    ELSE Res(rb.cat, CArchiveIssue(<<"archive doesn't exist",
                                                     cmd.archive_name>>), Nil)
           ELSE t))

\* the profile lookup without the test of profile_id
StartBasebackup_resolveProfileUnchecked(c, cmd) ==
  LET name == IF cmd.backup_profile.name # "" THEN cmd.backup_profile.name ELSE "default"
  IN  Then(startTransaction(c), LAMBDA s :
        CatchRollbackRethrow(
          Then(getBackupProfile(s.cat, name), LAMBDA r :
            Then(commitTransaction(r.cat), LAMBDA k : Res(k.cat, NoErr, r.val)))))

\* the result's val is backupProfile
StartBasebackup_resolveProfile(c, cmd) ==
  LET name == IF cmd.backup_profile.name # "" THEN cmd.backup_profile.name ELSE "default"
  IN  Then(startTransaction(c), LAMBDA s :
        Then(CatchRollbackRethrow(
               Then(getBackupProfile(s.cat, name), LAMBDA r :
                 Then(commitTransaction(r.cat), LAMBDA k : Res(k.cat, NoErr, r.val)))),
          LAMBDA t :
            IF t.val.profile_id < 0
            THEN Res(t.cat,
                     CArchiveIssue(IF cmd.backup_profile.name # ""
                                   THEN <<"backup profile does not exist", name>>
                                   ELSE <<"\"default\" profile not found">>), Nil)
            ELSE t))

StartBasebackup_openStream(c) ==
  Then(StreamCall(c, "connect"), LAMBDA a :
    Then(StreamCall(a.cat, "identify"), LAMBDA b :
      Then(StreamCall(b.cat, "basebackup"), LAMBDA d :
        StreamCall(d.cat, "start"))))

\* the result's val is basebackupDescr with the id the catalog assigned
StartBasebackup_register(c, temp_descr, basebackupDescr) ==
  Then(startTransaction(c), LAMBDA s :
    CatchRollbackRethrow(
      Then(initialize(s.cat), LAMBDA i :
        Then(create(i.cat, temp_descr.directory), LAMBDA d :
          Then(registerBasebackup(d.cat, temp_descr.id,
                                  [basebackupDescr EXCEPT !.archive_id = temp_descr.id,
                                                          !.fsentry = d.val]),
            LAMBDA g :
              Then(commitTransaction(g.cat), LAMBDA k : Res(k.cat, NoErr, g.val)))))))

\* one turn of the loop that writes the tablespace before it registers it
StartBasebackup_stepTablespaceWriteFirst(c, descr, tsleft) ==
  Then(StreamCall(c, "stepTablespace"), LAMBDA s :
    IF tsleft = 0 THEN Res(s.cat, NoErr, FALSE)
    ELSE Then(StreamCall(s.cat, "backupTablespace"), LAMBDA w :
           Then(registerTablespaceForBackup(w.cat, [backup_id |-> descr.id,
                                                    spcoid |-> tsleft]),
             LAMBDA g : Res(g.cat, NoErr, TRUE))))

\* one turn of the while loop; val is what stepTablespace() returned
StartBasebackup_stepTablespace(c, descr, tsleft) ==
  Then(StreamCall(c, "stepTablespace"), LAMBDA s :
    IF tsleft = 0 THEN Res(s.cat, NoErr, FALSE)
    ELSE Then(registerTablespaceForBackup(s.cat, [backup_id |-> descr.id, spcoid |-> tsleft]),
           LAMBDA g :
             Then(StreamCall(g.cat, "backupTablespace"), LAMBDA w :
               Res(w.cat, NoErr, TRUE))))

\* an end step that does not take the end position over
StartBasebackup_endNoCapture(c, descr) ==
  Then(StreamCall(c, "end"), LAMBDA a :
    Then(StreamCall(a.cat, "disconnect"), LAMBDA d : Res(d.cat, NoErr, descr)))

\* the result's val is the backup descriptor with the end position of the
\* log, which end() takes over from the server
StartBasebackup_end(c, descr) ==
  Then(StreamCall(c, "end"), LAMBDA a :
    Then(StreamCall(a.cat, "disconnect"), LAMBDA d :
      Res(d.cat, NoErr, [descr EXCEPT !.xlogposend = Len(a.cat.log)])))

\* the `throw e;' that ends the outer handler: e is the exception the outer
\* handler caught, e2 the one the inner handler caught (NoErr when none)
RethrowInner(e, e2) == IF e2.raised THEN Rethrow(e2) ELSE Rethrow(e)
StartBasebackup_rethrow(e, e2) == Rethrow(e)

\* the outer handler without its compensation
StartBasebackup_catchNoAbort(c, e, basebackup_registered, descr) ==
  Res(c, StartBasebackup_rethrow(e, NoErr), NoErr)

\* the outer handler that marks the backup aborted whether or not it was
\* registered
StartBasebackup_catchUnregistered(c, e, basebackup_registered, descr) ==
  LET s == startTransaction(c)
  IN  IF s.exc.raised
      THEN Res(s.cat, StartBasebackup_rethrow(e, s.exc), s.exc)
      ELSE LET a == Then(abortBasebackup(s.cat, descr), LAMBDA q :
                      commitTransaction(q.cat))
           IN  IF a.exc.raised
               THEN LET rb == rollbackTransaction(a.cat)
                    IN  IF rb.exc.raised THEN Res(rb.cat, rb.exc, a.exc)
                        ELSE Res(rb.cat, StartBasebackup_rethrow(e, a.exc), a.exc)
               ELSE Res(a.cat, StartBasebackup_rethrow(e, NoErr), NoErr)

\* the outer handler; val is the exception the inner handler swallowed
StartBasebackup_catch(c, e, basebackup_registered, descr) ==
  IF ~basebackup_registered THEN Res(c, StartBasebackup_rethrow(e, NoErr), NoErr)
  ELSE LET s == startTransaction(c)
       IN  IF s.exc.raised
           THEN Res(s.cat, StartBasebackup_rethrow(e, s.exc), s.exc)
           ELSE LET a == Then(abortBasebackup(s.cat, descr), LAMBDA q :
                           commitTransaction(q.cat))
                IN  IF a.exc.raised
                    THEN LET rb == rollbackTransaction(a.cat)
                         IN  IF rb.exc.raised THEN Res(rb.cat, rb.exc, a.exc)
                             ELSE Res(rb.cat, StartBasebackup_rethrow(e, a.exc), a.exc)
                    ELSE Res(a.cat, StartBasebackup_rethrow(e, NoErr), NoErr)

StartBasebackup_finalize(c, descr) ==
  Then(startTransaction(c), LAMBDA s :
    CatchRollbackRethrow(
      Then(finalizeBasebackup(s.cat, descr), LAMBDA f : commitTransaction(f.cat))))

\* the while loop over the tablespaces, tsleft of them still to come
RECURSIVE StartBasebackup_tablespaces(_, _, _)
StartBasebackup_tablespaces(c, descr, tsleft) ==
  Then(StartBasebackup_stepTablespace(c, descr, tsleft), LAMBDA r :
    IF r.val THEN StartBasebackup_tablespaces(r.cat, descr, tsleft - 1) ELSE r)

\* the body of execute() from its first to its last block, for a server that
\* reports n tablespaces
StartBasebackup_run(c, cmd, n) ==
  LET ra == StartBasebackup_resolveArchive(c, cmd)
      rp == StartBasebackup_resolveProfile(ra.cat, cmd)
      o  == StartBasebackup_openStream(rp.cat)
      d0 == [BaseBackupDescr EXCEPT !.xlogpos = Len(o.cat.log)]
      g  == StartBasebackup_register(o.cat, ra.val, d0)
      w  == Then(StreamCall(g.cat, "readTablespaceInfo"), LAMBDA t :
              Then(StartBasebackup_tablespaces(t.cat, g.val, n), LAMBDA u :
                StartBasebackup_end(u.cat, g.val)))
      handler(r, registered, descr) ==
        LET h == StartBasebackup_catch(r.cat, r.exc, registered, descr)
        IN  Res(h.cat, h.exc, Nil)
  IN  IF ra.exc.raised THEN ra
      ELSE IF rp.exc.raised THEN rp
      ELSE IF o.exc.raised THEN handler(o, FALSE, BaseBackupDescr)
      ELSE IF g.exc.raised THEN handler(g, FALSE, d0)
      ELSE IF w.exc.raised THEN handler(w, TRUE, g.val)
      ELSE StartBasebackup_finalize(w.cat, w.val)

\* an execute() that leaves the work to a worker when it runs in the background
StartBasebackupExecuteDetached(c, cmd, background, n) ==
  IF background THEN StartBasebackup_resolveArchive(c, cmd)
  ELSE StartBasebackup_run(c, cmd, n)

\* StartBasebackupCatalogCommand::execute(bool background) as a whole
StartBasebackupExecute(c, cmd, background, n) == StartBasebackup_run(c, cmd, n)

(***************************************************************************)
(* The vectored buffer and the io_uring instance (io_uring_instance.hxx).  *)
(* An operation returns Ret(obj, exc, val): the object after the call, the *)
(* exception that left it and the value it returned.                       *)
(***************************************************************************)
DEFAULT_QUEUE_DEPTH == 8
DEFAULT_BLOCK_SIZE == 4096

\* a CArchiveIssue that carries the error code set by io_uring
CIOUringIssue(m, reason) ==
  [raised |-> TRUE, kind |-> "CIOUringIssue", msg |-> m, reason |-> reason]

Ret(o, e, v) == [obj |-> o, exc |-> e, val |-> v]

\* explicit vectored_buffer(unsigned int bufsize, unsigned int count)
vectored_buffer(bufsize, count) ==
  [buffer_size |-> bufsize, num_buffers |-> count,
   buffer_pos |-> [offset |-> 0, index |-> 0], effective_size |-> 0]

\* the overall size of the allocated buffers
getSize(b) == b.buffer_size * b.num_buffers

getEffectiveSize(b) == b.effective_size
getOffset(b) == b.buffer_pos.offset

\* a setter without the upper bound
setEffectiveSizeUnbounded(b, size) ==
  IF size < 0
  THEN Ret(b, CIOUringIssue(<<"invalid effective size">>, 0), Nil)
  ELSE Ret([b EXCEPT !.effective_size = size], NoErr, Nil)

\* "This will throw in case a negative size is specified or the argument
\* exceeds the maximum number of bytes the buffer array can hold."
setEffectiveSize(b, size) ==
  IF size < 0 \/ size > getSize(b)
  THEN Ret(b, CIOUringIssue(<<"invalid effective size">>, 0), Nil)
  ELSE Ret([b EXCEPT !.effective_size = size], NoErr, Nil)

\* a setter that checks the offset against the last byte of the array
setOffsetBelowCapacity(b, offset) ==
  IF offset < 0 \/ offset >= getSize(b)
  THEN Ret(b, CIOUringIssue(<<"offset out of bounds">>, 0), Nil)
  ELSE Ret([b EXCEPT !.buffer_pos = [offset |-> offset, index |-> offset \div b.buffer_size]],
           NoErr, Nil)

\* "If the specified value is out of bounds, this will throw."  The offset
\* is the absolute one; the index is that of the block it falls into.
setOffset(b, offset) ==
  IF offset < 0 \/ offset > getSize(b)
  THEN Ret(b, CIOUringIssue(<<"offset out of bounds">>, 0), Nil)
  ELSE Ret([b EXCEPT !.buffer_pos = [offset |-> offset, index |-> offset \div b.buffer_size]],
           NoErr, Nil)

\* IOUringInstance(unsigned int queue_depth, size_t block_size).  inflight
\* are the requests submitted and not yet completed, cq the completion
\* queue; submitted counts the requests and acked lists the completions
\* seen() has acknowledged.
NoFile == "none"
IOUringInstance(queue_depth, block_size) ==
  [initialized |-> FALSE, file |-> NoFile, queue_depth |-> queue_depth,
   block_size |-> block_size, inflight |-> {}, cq |-> <<>>, submitted |-> 0,
   acked |-> <<>>]

IOUring_available(r) == r.initialized

\* setup(file): "Throws on error"; ok tells whether io_uring_queue_init()
\* succeeded
IOUring_setup(r, file, ok) ==
  IF r.initialized
  THEN Ret(r, CIOUringIssue(<<"io_uring already initialized">>, 0), Nil)
  ELSE IF ~ok THEN Ret(r, CIOUringIssue(<<"could not initialize io_uring">>, 1), Nil)
  ELSE Ret([r EXCEPT !.initialized = TRUE, !.file = file], NoErr, Nil)

\* a teardown that leaves the instance marked as set up
IOUring_exitKeepInitialized(r) ==
  Ret([r EXCEPT !.file = NoFile, !.inflight = {}, !.cq = <<>>, !.submitted = 0,
                !.acked = <<>>], NoErr, Nil)

\* exit(): "Tear down io_uring instance and free all internal resources."
IOUring_exit(r) ==
  IF ~r.initialized THEN Ret(r, NoErr, Nil)
  ELSE Ret([r EXCEPT !.initialized = FALSE, !.file = NoFile, !.inflight = {},
                     !.cq = <<>>, !.submitted = 0, !.acked = <<>>], NoErr, Nil)

\* "This should be called before setup(), otherwise this will throw."
IOUring_setQueueDepth(r, queue_depth) ==
  IF r.initialized
  THEN Ret(r, CIOUringIssue(<<"queue depth cannot be changed after setup">>, 0), Nil)
  ELSE Ret([r EXCEPT !.queue_depth = queue_depth], NoErr, Nil)

IOUring_setBlockSize(r, block_size) == Ret([r EXCEPT !.block_size = block_size], NoErr, Nil)

\* "Throws in case setup() wasn't called before."
IOUring_getRing(r) ==
  IF ~r.initialized THEN Ret(r, CIOUringIssue(<<"io_uring not initialized">>, 0), Nil)
  ELSE Ret(r, NoErr, r.file)

\* alloc_buffer(vbuf): queue_depth aligned buffers of block_size bytes
IOUring_alloc_buffer(r) == vectored_buffer(r.block_size, r.queue_depth)

\* read()/write(file, buf, pos): "The vector size must be smaller or equal
\* to queue depth and buffer size must match block size."  The request is
\* submitted for buffer i.
IOUring_submit(r, op, b, i, pos) ==
  IF ~r.initialized THEN Ret(r, CIOUringIssue(<<"io_uring not initialized">>, 0), Nil)
  ELSE IF b.num_buffers > r.queue_depth \/ b.buffer_size # r.block_size
  THEN Ret(r, CIOUringIssue(<<"buffer does not match io_uring instance">>, 0), Nil)
  ELSE Ret([r EXCEPT !.submitted = @ + 1,
                     !.inflight = @ \cup {[id |-> r.submitted + 1, op |-> op, buf |-> i,
                                           len |-> getSize(b)]}],
           NoErr, Nil)

\* the kernel completes request q with result res
IOUring_complete(r, q, res) ==
  [r EXCEPT !.inflight = @ \ {q}, !.cq = Append(@, [id |-> q.id, buf |-> q.buf, res |-> res])]

\* wait(&cqe): the first completion of the completion queue
IOUring_wait(r) == Head(r.cq)

\* seen(&cqe): "Must be called after wait() to finalize a CQE completion item."
IOUring_seen(r, cqe) == [r EXCEPT !.cq = Tail(@), !.acked = Append(@, cqe.id)]

\* handle_current_io(buffer): "Handles an I/O operation by waiting for
\* completion and sets internal buffer properties": the byte count of the
\* completion becomes the effective size of the buffer the caller passed;
\* a negative result is returned as it is.
IOUring_handle_current_io(r, b) ==
  LET cqe == IOUring_wait(r)
      r1 == IOUring_seen(r, cqe)
      s == setEffectiveSize(b, cqe.res)
  IN  IF cqe.res < 0 THEN [ring |-> r1, buf |-> b, exc |-> NoErr, val |-> cqe.res]
      ELSE [ring |-> r1, buf |-> s.obj, exc |-> s.exc, val |-> cqe.res]

(***************************************************************************)
(* START LAUNCHER.  A catalog handle is a std::shared_ptr<BackupCatalog>:  *)
(* what the model keeps of it is the object it designates.  Foreground is  *)
(* the one BackupCatalog object the commands of the foreground process     *)
(* share, which is the value of cat.                                       *)
(***************************************************************************)
Foreground == "cat"

\* BackgroundWorkerCommandHandle(std::shared_ptr<BackupCatalog> catalog)
BackgroundWorkerCommandHandle(catalog) ==
  [tag |-> "BACKGROUND_WORKER_COMMAND", subTag |-> "EMPTY_DESCR", catalog |-> catalog]

\* fork(): the child gets a copy of the job descriptor, the handle in it
\* designating the connection of the parent's process image, in the
\* transaction state it was forked in; the parent gets the child's pid
launch(c, ws, job_info) ==
  LET pid == FreeId({w.pid : w \in ws})
  IN  [pid |-> pid,
       workers |-> ws \cup {[pid |-> pid, pc |-> "forked", detach |-> job_info.detach,
                             close_std_fd |-> job_info.close_std_fd,
                             cmdHandle |-> job_info.cmdHandle, intx |-> c.intx]}]

\* StartLauncherCatalogCommand::execute(bool flag) in the parent process
StartLauncherExecute(c, cmd, flag, detach, ws) ==
  IF ~cmd.hasCatalog
  THEN Res(c, CArchiveIssue(<<"could not execute catalog command: no catalog">>), ws)
  ELSE LET job_info == [detach |-> detach, close_std_fd |-> FALSE,
                        cmdHandle |-> BackgroundWorkerCommandHandle(Foreground)]
       IN  Res(c, NoErr, launch(c, ws, job_info).workers)

(***************************************************************************)
(* State.  cat is the catalog handle shared by the commands of the        *)
(* foreground process together with the backup directories on disk; last  *)
(* records the command that completed last and the exception that left    *)
(* its execute(); bb is the activation record of a running                *)
(* StartBasebackupCatalogCommand::execute.  workers are the processes the  *)
(* launcher forked; ring is the IOUringInstance of a stream, vbuf the      *)
(* vectored buffers allocated for it and call the outcome of the last      *)
(* call made on either.  result is what the listing command that          *)
(* completed last has printed, or what the routine applied last returned.  *)
(***************************************************************************)
VARIABLES cat, last, bb, workers, ring, vbuf, call, result

ioVars == <<ring, vbuf, call>>
vars == <<cat, last, bb, workers, ioVars, result>>

Types == {CONNECTION_TYPE_BASEBACKUP, CONNECTION_TYPE_STREAMER}
NameDir == {SQL_ARCHIVE_NAME_ATTNO, SQL_ARCHIVE_DIRECTORY_ATTNO}
NoProfile == <<"", NoSettings>>

\* the inputs the commands of a specification are run with
Universe(names, dirs, zs, hosts, attrs, profiles, settings) ==
  [names |-> names, dirs |-> dirs, zs |-> zs, hosts |-> hosts, attrs |-> attrs,
   profiles |-> profiles, settings |-> settings]

UArchive == Universe(Names, Dirs, {FALSE}, {"h1"}, SUBSET NameDir, {"default"}, {NoSettings})
USmall == Universe({"A"}, {"/a"}, {FALSE}, {"h1"}, {{}, {SQL_ARCHIVE_DIRECTORY_ATTNO}},
                   {"default"}, {NoSettings})

\* one archive whose connections can point to two hosts
UConn == Universe({"A"}, {"/a"}, {FALSE}, {"h1", "h2"}, {{}}, {"default"}, {NoSettings})

\* COMPRESSION gzip alone, and a profile with every setting off its default
SettingsGzip ==
  Settings("gzip", 0, "PG_BCK_CTL BASEBACKUP", FALSE, FALSE, TRUE, FALSE,
           {SQL_BCK_PROF_COMPRESS_TYPE_ATTNO})
SettingsZstd ==
  Settings("zstd", 100, "nightly", TRUE, TRUE, FALSE, TRUE, ProfileFields)

\* one archive, the default profile and a profile P
UProfile == Universe({"A"}, {"/a"}, {FALSE}, {"h1"}, {{}}, {"default", "P"},
                     {SettingsGzip, SettingsZstd})

\* the profile P alone, as a gzip profile; the default profile alone
UNamed == Universe({"A"}, {"/a"}, {FALSE}, {"h1"}, {{}}, {"P"}, {SettingsGzip})
UDefault == Universe({"A"}, {"/a"}, {FALSE}, {"h1"}, {{}}, {"default"}, {NoSettings})

\* two archives on two directories, altered in every set of their columns
UAlter == Universe(Names, Dirs, BOOLEAN, {"h1"},
                   SUBSET {SQL_ARCHIVE_NAME_ATTNO, SQL_ARCHIVE_DIRECTORY_ATTNO,
                           SQL_ARCHIVE_COMPRESSION_ATTNO},
                   {"default"}, {NoSettings})

\* at most one call of a step fails: the k-th call from now on
FaultSets(done) == {{}} \cup {{done + k} : k \in 1..MaxCalls}

BeginCmd(c, F) ==
  [c EXCEPT !.F = F, !.log = <<>>, !.viol = {}, !.mine = FALSE, !.faulted = FALSE]
BeginStep(c, F) == [c EXCEPT !.F = F]
EndCmd(c) == [c EXCEPT !.F = {}]

\* what a command found when it began
Pre(c) == [db |-> c.db, dirs |-> c.dirs]
NoPre == [db |-> EmptyDb, dirs |-> {}]

NoRun == [registered |-> FALSE, id |-> -1, primary |-> NoErr, secondary |-> NoErr]
NoCmd == Command(FALSE, "", "", FALSE, CONNECTION_TYPE_UNKNOWN, "", {}, NoProfile)
NoLast ==
  [tag |-> "NONE", cmd |-> NoCmd, flag |-> FALSE, out |-> NoErr, pre |-> NoPre,
   run |-> NoRun]

Idle ==
  [pc |-> "idle", cmd |-> NoCmd, background |-> FALSE, temp_descr |-> CatalogDescr,
   backupProfile |-> BackupProfileDescr, basebackup_registered |-> FALSE,
   descr |-> BaseBackupDescr, tsleft |-> 0, e |-> NoErr, pre |-> NoPre]

\* what call keeps of a call on the ring or on a buffer: pre is the buffer
\* and was the value of initialized the call found
Call(op, buf, arg, out, val, pre, was) ==
  [op |-> op, buf |-> buf, arg |-> arg, out |-> out, val |-> val, pre |-> pre, was |-> was]
NoBuf == vectored_buffer(0, 0)
NoCall == Call("none", 0, 0, NoErr, Nil, NoBuf, FALSE)

\* a value printed or returned by op
Result(op, arg, val) == [op |-> op, arg |-> arg, val |-> val]
NoResult == Result("none", Nil, Nil)

Init ==
  /\ cat \in {NewCatalog(strict) : strict \in BOOLEAN}
  /\ last = NoLast
  /\ bb = Idle
  /\ workers = {}
  /\ ring = IOUringInstance(DEFAULT_QUEUE_DEPTH, DEFAULT_BLOCK_SIZE)
  /\ vbuf = <<>>
  /\ call = NoCall
  /\ result = NoResult

\* what last keeps of a completed command
Completed(tag, cmd, flag, out, pre, run) ==
  [tag |-> tag, cmd |-> cmd, flag |-> flag, out |-> out, pre |-> pre, run |-> run]

\* a whole execute() of a command other than START BASEBACKUP
Run(tag, cmd, flag, r) ==
  /\ bb.pc = "idle"
  /\ UNCHANGED <<workers, ioVars, result>>
  /\ last.tag = "NONE"
  /\ cat' = EndCmd(r.cat)
  /\ last' = Completed(tag, cmd, flag, r.exc, Pre(cat), NoRun)
  /\ UNCHANGED bb

\* the caller has seen the outcome; the next command object is built
Prompt ==
  /\ bb.pc = "idle"
  /\ UNCHANGED <<workers, ioVars>>
  /\ result' = NoResult
  /\ last.tag # "NONE"
  /\ last' = NoLast
  /\ cat' = [cat EXCEPT !.log = <<>>, !.viol = {}, !.faulted = FALSE]
  /\ UNCHANGED bb

\* a command built from a descriptor only has no catalog handle
Detached(cmds) == {[(CHOOSE x \in cmds : TRUE) EXCEPT !.hasCatalog = FALSE]}

ByName(U) ==
  {Command(TRUE, n, "", FALSE, CONNECTION_TYPE_UNKNOWN, "", {}, NoProfile) : n \in U.names}

CreateArchiveCmds(U) ==
  {Command(TRUE, n, d, z, CONNECTION_TYPE_UNKNOWN, h, as, NoProfile) :
     n \in U.names, d \in U.dirs, z \in U.zs, h \in U.hosts, as \in U.attrs}

AlterArchiveCmds(U) ==
  {Command(TRUE, n, d, z, CONNECTION_TYPE_UNKNOWN, "", as, NoProfile) :
     n \in U.names, d \in U.dirs, z \in U.zs, as \in U.attrs}

CreateConnectionCmds(U) ==
  {Command(TRUE, n, "", FALSE, t, h, {}, NoProfile) : n \in U.names, t \in Types, h \in U.hosts}

DropConnectionCmds(U) ==
  {Command(TRUE, n, "", FALSE, t, "", {}, NoProfile) : n \in U.names, t \in Types}

ProfileCmds(U) ==
  {Command(TRUE, "", "", FALSE, CONNECTION_TYPE_UNKNOWN, "", {}, <<n, ct>>) :
     n \in U.profiles, ct \in U.settings}

StartBasebackupCmds(U) ==
  {Command(TRUE, n, "", FALSE, CONNECTION_TYPE_UNKNOWN, "", {}, <<p, NoSettings>>) :
     n \in U.names, p \in U.profiles \cup {""}}

CreateArchive(U) ==
  \E cmd \in CreateArchiveCmds(U) \cup Detached(CreateArchiveCmds(U)), existsOk \in BOOLEAN,
     F \in FaultSets(0) :
    Run("CREATE_ARCHIVE", cmd, existsOk, CreateArchiveExecute(BeginCmd(cat, F), cmd, existsOk))

AlterArchive(U) ==
  \E cmd \in AlterArchiveCmds(U) \cup Detached(AlterArchiveCmds(U)), ignoreMissing \in BOOLEAN,
     F \in FaultSets(0) :
    Run("ALTER_ARCHIVE", cmd, ignoreMissing,
        AlterArchiveExecute(BeginCmd(cat, F), cmd, ignoreMissing))

DropArchive(U) ==
  \E cmd \in ByName(U) \cup Detached(ByName(U)), existsOk \in BOOLEAN, F \in FaultSets(0) :
    Run("DROP_ARCHIVE", cmd, existsOk, DropArchiveExecute(BeginCmd(cat, F), cmd, existsOk))

ListArchive(U) ==
  \E cmd \in ByName(U) \cup Detached(ByName(U)), F \in FaultSets(0) :
    Run("LIST_ARCHIVE", cmd, FALSE, ListArchiveExecute(BeginCmd(cat, F), cmd, FALSE))

VerifyArchive(U) ==
  \E cmd \in ByName(U) \cup Detached(ByName(U)), F \in FaultSets(0) :
    Run("VERIFY_ARCHIVE", cmd, FALSE, VerifyArchiveExecute(BeginCmd(cat, F), cmd, FALSE))

CreateConnection(U) ==
  \E cmd \in CreateConnectionCmds(U) \cup Detached(CreateConnectionCmds(U)),
     F \in FaultSets(0) :
    Run("CREATE_CONNECTION", cmd, FALSE, CreateConnectionExecute(BeginCmd(cat, F), cmd, FALSE))

DropConnection(U) ==
  \E cmd \in DropConnectionCmds(U) \cup Detached(DropConnectionCmds(U)),
     F \in FaultSets(0) :
    Run("DROP_CONNECTION", cmd, FALSE, DropConnectionExecute(BeginCmd(cat, F), cmd, FALSE))

ListConnection(U) ==
  \E cmd \in ByName(U) \cup Detached(ByName(U)), F \in FaultSets(0) :
    Run("LIST_CONNECTION", cmd, FALSE, ListConnectionExecute(BeginCmd(cat, F), cmd, FALSE))

ListBackupCatalog(U) ==
  \E cmd \in ByName(U) \cup Detached(ByName(U)), F \in FaultSets(0) :
    Run("LIST_BACKUP_CATALOG", cmd, FALSE,
        ListBackupCatalogExecute(BeginCmd(cat, F), cmd, FALSE))

CreateBackupProfile(U) ==
  \E cmd \in ProfileCmds(U) \cup Detached(ProfileCmds(U)), existsOk \in BOOLEAN,
     F \in FaultSets(0) :
    Run("CREATE_BACKUP_PROFILE", cmd, existsOk,
        CreateBackupProfileExecute(BeginCmd(cat, F), cmd, existsOk))

DropBackupProfile(U) ==
  \E cmd \in ProfileCmds(U) \cup Detached(ProfileCmds(U)), F \in FaultSets(0) :
    Run("DROP_BACKUP_PROFILE", cmd, FALSE,
        DropBackupProfileExecute(BeginCmd(cat, F), cmd, FALSE))

\* the lines of a listing that returned are kept in result
ListBackupProfile(U) ==
  \E cmd \in ProfileCmds(U) \cup Detached(ProfileCmds(U)), extended \in BOOLEAN,
     F \in FaultSets(0) :
    /\ bb.pc = "idle" /\ last.tag = "NONE"
    /\ LET r == ListBackupProfileExecute(BeginCmd(cat, F), cmd, extended)
       IN  /\ cat' = EndCmd(r.cat)
           /\ last' = Completed("LIST_BACKUP_PROFILE", cmd, extended, r.exc, Pre(cat), NoRun)
           /\ result' = Result("LIST_BACKUP_PROFILE", cmd.backup_profile.name,
                               IF r.exc.raised THEN {} ELSE r.val)
    /\ UNCHANGED <<bb, workers, ioVars>>

\* the calls of a whole START BASEBACKUP that can fail: one of them, or one
\* and a later one
RunFaultSets ==
  {{}} \cup {{j} : j \in 1..MaxRunCalls}
       \cup {{j, j + k} : j \in 1..MaxRunCalls, k \in 1..MaxCalls}

\* START BASEBACKUP run from its first block to its last
StartBasebackupWhole(U) ==
  \E cmd \in StartBasebackupCmds(U) \cup Detached(StartBasebackupCmds(U)),
     background \in BOOLEAN, F \in RunFaultSets, n \in 0..MaxTablespaces :
    /\ Cardinality(cat.db.backups) < MaxBackups
    /\ Cardinality(cat.dirs) < MaxDirs
    /\ Run("START_BASEBACKUP", cmd, background,
           StartBasebackupExecute(BeginCmd(cat, F), cmd, background, n))

(***************************************************************************)
(* START BASEBACKUP runs block by block.                                   *)
(***************************************************************************)
\* execute() is left with exception out
Leave(r, out, run) ==
  /\ cat' = EndCmd(r.cat)
  /\ last' = Completed("START_BASEBACKUP", bb.cmd, bb.background, out, bb.pre, run)
  /\ bb' = Idle

\* an exception reaches the handler of the outer try block
Caught(r) ==
  /\ cat' = EndCmd(r.cat)
  /\ bb' = [bb EXCEPT !.pc = "catch", !.e = r.exc]
  /\ UNCHANGED last

StartBasebackup(U) ==
  \E cmd \in StartBasebackupCmds(U) \cup Detached(StartBasebackupCmds(U)),
     background \in BOOLEAN, F \in FaultSets(0) :
    /\ bb.pc = "idle"
    /\ UNCHANGED <<workers, ioVars, result>>
    /\ last.tag = "NONE"
    /\ Cardinality(cat.db.backups) < MaxBackups
    /\ Cardinality(cat.dirs) < MaxDirs
    /\ LET r == StartBasebackup_resolveArchive(BeginCmd(cat, F), cmd)
       IN  /\ cat' = EndCmd(r.cat)
           /\ IF r.exc.raised
              THEN /\ last' = Completed("START_BASEBACKUP", cmd, background, r.exc, Pre(cat),
                                           NoRun)
                   /\ UNCHANGED bb
              ELSE /\ bb' = [Idle EXCEPT !.pc = "profile", !.cmd = cmd,
                                         !.background = background, !.temp_descr = r.val,
                                         !.pre = Pre(cat)]
                   /\ UNCHANGED last

ResolveProfile ==
  \E F \in FaultSets(Len(cat.log)) :
    /\ bb.pc = "profile"
    /\ UNCHANGED <<workers, ioVars, result>>
    /\ LET r == StartBasebackup_resolveProfile(BeginStep(cat, F), bb.cmd)
       IN  IF r.exc.raised THEN Leave(r, r.exc, NoRun)
           ELSE /\ cat' = EndCmd(r.cat)
                /\ bb' = [bb EXCEPT !.pc = "stream", !.backupProfile = r.val]
                /\ UNCHANGED last

OpenStream ==
  \E F \in FaultSets(Len(cat.log)) :
    /\ bb.pc = "stream"
    /\ UNCHANGED <<workers, ioVars, result>>
    /\ LET r == StartBasebackup_openStream(BeginStep(cat, F))
       IN  IF r.exc.raised THEN Caught(r)
           ELSE /\ cat' = EndCmd(r.cat)
                /\ bb' = [bb EXCEPT !.pc = "register", !.descr.xlogpos = Len(r.cat.log)]
                /\ UNCHANGED last

Register ==
  \E F \in FaultSets(Len(cat.log)) :
    /\ bb.pc = "register"
    /\ UNCHANGED <<workers, ioVars, result>>
    /\ LET r == StartBasebackup_register(BeginStep(cat, F), bb.temp_descr, bb.descr)
       IN  IF r.exc.raised THEN Caught(r)
           ELSE /\ cat' = EndCmd(r.cat)
                /\ bb' = [bb EXCEPT !.pc = "readTablespaceInfo", !.descr = r.val,
                                    !.basebackup_registered = TRUE]
                /\ UNCHANGED last

ReadTablespaceInfo ==
  \E F \in FaultSets(Len(cat.log)), n \in 0..MaxTablespaces :
    /\ bb.pc = "readTablespaceInfo"
    /\ UNCHANGED <<workers, ioVars, result>>
    /\ LET r == StreamCall(BeginStep(cat, F), "readTablespaceInfo")
       IN  IF r.exc.raised THEN Caught(r)
           ELSE /\ cat' = EndCmd(r.cat)
                /\ bb' = [bb EXCEPT !.pc = "stepTablespace", !.tsleft = n]
                /\ UNCHANGED last

StepTablespace ==
  \E F \in FaultSets(Len(cat.log)) :
    /\ bb.pc = "stepTablespace"
    /\ UNCHANGED <<workers, ioVars, result>>
    /\ LET r == StartBasebackup_stepTablespace(BeginStep(cat, F), bb.descr, bb.tsleft)
       IN  IF r.exc.raised THEN Caught(r)
           ELSE /\ cat' = EndCmd(r.cat)
                /\ bb' = IF r.val THEN [bb EXCEPT !.tsleft = @ - 1]
                                  ELSE [bb EXCEPT !.pc = "end"]
                /\ UNCHANGED last

EndStream ==
  \E F \in FaultSets(Len(cat.log)) :
    /\ bb.pc = "end"
    /\ UNCHANGED <<workers, ioVars, result>>
    /\ LET r == StartBasebackup_end(BeginStep(cat, F), bb.descr)
       IN  IF r.exc.raised THEN Caught(r)
           ELSE /\ cat' = EndCmd(r.cat)
                /\ bb' = [bb EXCEPT !.pc = "finalize", !.descr = r.val]
                /\ UNCHANGED last

Catch ==
  \E F \in FaultSets(Len(cat.log)) :
    /\ bb.pc = "catch"
    /\ UNCHANGED <<workers, ioVars, result>>
    /\ LET r == StartBasebackup_catch(BeginStep(cat, F), bb.e, bb.basebackup_registered,
                                      bb.descr)
       IN  Leave(r, r.exc, [registered |-> bb.basebackup_registered, id |-> bb.descr.id,
                            primary |-> bb.e, secondary |-> r.val])

Finalize ==
  \E F \in FaultSets(Len(cat.log)) :
    /\ bb.pc = "finalize"
    /\ UNCHANGED <<workers, ioVars, result>>
    /\ LET r == StartBasebackup_finalize(BeginStep(cat, F), bb.descr)
       IN  Leave(r, r.exc, [registered |-> TRUE, id |-> bb.descr.id,
                            primary |-> r.exc, secondary |-> NoErr])

StartBasebackupSteps ==
  \/ ResolveProfile \/ OpenStream \/ Register \/ ReadTablespaceInfo \/ StepTablespace
  \/ EndStream \/ Catch \/ Finalize

(***************************************************************************)
(* START LAUNCHER and the worker processes.                                *)
(***************************************************************************)
StartLauncher ==
  \E hasCatalog \in BOOLEAN, detach \in BOOLEAN :
    /\ bb.pc = "idle" /\ last.tag = "NONE"
    /\ Cardinality(workers) < MaxWorkers
    /\ LET cmd == [NoCmd EXCEPT !.hasCatalog = hasCatalog]
           r == StartLauncherExecute(BeginCmd(cat, {}), cmd, FALSE, detach, workers)
       IN  /\ cat' = EndCmd(r.cat)
           /\ last' = Completed("START_LAUNCHER", cmd, detach, r.exc, Pre(cat), NoRun)
           /\ workers' = r.val
    /\ UNCHANGED <<bb, ioVars, result>>

\* the child dispatches cmdHandle.execute(noop), which does nothing
WorkerExecute ==
  \E w \in workers :
    /\ w.pc = "forked"
    /\ workers' = (workers \ {w}) \cup {[w EXCEPT !.pc = "executed"]}
    /\ UNCHANGED <<cat, last, bb, ioVars, result>>

WorkerExit ==
  \E w \in workers :
    /\ w.pc = "executed"
    /\ workers' = workers \ {w}
    /\ UNCHANGED <<cat, last, bb, ioVars, result>>

\* BackgroundWorkerCommandHandle::execute(bool noop): the body is empty
BackgroundWorkerCommandHandleExecute(c, cmd, noop) == Res(c, NoErr, Nil)

\* a worker handle, built on a catalog or from a descriptor, is executed in
\* the foreground process
BackgroundWorkerCommand ==
  \E hasCatalog \in BOOLEAN, noop \in BOOLEAN :
    LET cmd == [NoCmd EXCEPT !.hasCatalog = hasCatalog]
    IN  Run("BACKGROUND_WORKER_COMMAND", cmd, noop,
            BackgroundWorkerCommandHandleExecute(BeginCmd(cat, {}), cmd, noop))

(***************************************************************************)
(* A second process.  It opens its own handle on the catalog database of   *)
(* the foreground process and runs DROP ARCHIVE there.  startTransaction   *)
(* takes the write lock of the database, so the whole transaction of the   *)
(* command falls between two transactions of the foreground process; a     *)
(* transaction the process leaves open ends with the process.              *)
(***************************************************************************)
OtherHandle(c) ==
  [avail |-> FALSE, created |-> c.created, intx |-> FALSE, mine |-> FALSE,
   strict |-> c.strict, db |-> c.db, saved |-> EmptyDb,
   log |-> <<>>, viol |-> {}, F |-> {}, faulted |-> FALSE, dirs |-> c.dirs]

ConcurrentDropArchive ==
  \E cmd \in ByName(UDefault), existsOk \in BOOLEAN, F \in FaultSets(0) :
    /\ result.op = "none" /\ ~cat.intx
    /\ bb.pc # "idle" \/ last.tag = "START_BASEBACKUP"
    /\ LET r == DropArchiveExecute(BeginCmd(OtherHandle(cat), F), cmd, existsOk)
           db == IF r.cat.intx THEN r.cat.saved ELSE r.cat.db
       IN  /\ cat' = [cat EXCEPT !.db = db, !.created = r.cat.created, !.dirs = r.cat.dirs]
           /\ result' = Result("DROP_ARCHIVE", cmd.archive_name,
                               [out |-> r.exc, at |-> bb.pc,
                                gone |-> {a.id : a \in {x \in cat.db.archives :
                                                           x.name = cmd.archive_name}}])
    /\ UNCHANGED <<last, bb, workers, ioVars>>

(***************************************************************************)
(* BaseCatalogCommand::copy.  A descriptor is written with the members     *)
(* copy() reads or leaves in place; the sub-descriptors and the            *)
(* catalog handle are pointers, 0 and "nullptr" when not set.              *)
(***************************************************************************)
Descriptor(tag, id, name, archive_id, v, sub, catalog) ==
  [tag |-> tag, id |-> id, archive_name |-> name, label |-> <<"label", v>>,
   compression |-> (v = 1), directory |-> <<"dir", v>>,
   coninfo |-> [archive_id |-> archive_id, type |-> <<"type", v>>,
                pghost |-> <<"host", v>>, pgport |-> 5432 + v, pguser |-> <<"user", v>>,
                pgdatabase |-> <<"db", v>>, dsn |-> <<"dsn", v>>,
                affectedAttributes |-> <<v>>],
   backup_profile |-> <<"profile", v>>, detach |-> (v = 1),
   affectedAttributes |-> <<v, v + 1>>,
   retention |-> <<"retention", IF sub THEN v ELSE 0>>,
   interval |-> <<"interval", IF sub THEN v ELSE 0>>,
   recoveryStream |-> <<"recoveryStream", IF sub THEN v ELSE 0>>, catalog |-> catalog]

Descriptors ==
  {Descriptor(IF v = 1 THEN "EMPTY_DESCR" ELSE "CREATE_ARCHIVE", id,
              IF v = 1 THEN "" ELSE "A", archive_id, v, sub, catalog) :
     id \in {-1, 1}, archive_id \in {-1, 1}, v \in {1, 2}, sub \in BOOLEAN,
     catalog \in {"nullptr", Foreground}}

\* a copy that takes the sub-descriptors of the source over as well
copyWithSubDescriptors(this, source) ==
  [tag |-> source.tag, id |-> source.id, archive_name |-> source.archive_name,
   label |-> source.label, compression |-> source.compression,
   directory |-> source.directory,
   coninfo |-> [archive_id |-> this.coninfo.archive_id, type |-> source.coninfo.type,
                pghost |-> source.coninfo.pghost, pgport |-> source.coninfo.pgport,
                pguser |-> source.coninfo.pguser,
                pgdatabase |-> source.coninfo.pgdatabase, dsn |-> source.coninfo.dsn,
                affectedAttributes |-> source.coninfo.affectedAttributes],
   backup_profile |-> source.backup_profile, detach |-> source.detach,
   affectedAttributes |-> source.affectedAttributes,
   retention |-> source.retention, interval |-> source.interval,
   recoveryStream |-> source.recoveryStream, catalog |-> this.catalog]

\* void BaseCatalogCommand::copy(CatalogDescr& source): what this is after
\* the call
copy(this, source) ==
  [tag |-> source.tag, id |-> source.id, archive_name |-> source.archive_name,
   label |-> source.label, compression |-> source.compression,
   directory |-> source.directory,
   coninfo |-> [archive_id |-> this.coninfo.archive_id, type |-> source.coninfo.type,
                pghost |-> source.coninfo.pghost, pgport |-> source.coninfo.pgport,
                pguser |-> source.coninfo.pguser,
                pgdatabase |-> source.coninfo.pgdatabase, dsn |-> source.coninfo.dsn,
                affectedAttributes |-> source.coninfo.affectedAttributes],
   backup_profile |-> source.backup_profile, detach |-> source.detach,
   affectedAttributes |-> source.affectedAttributes,
   retention |-> this.retention, interval |-> this.interval,
   recoveryStream |-> this.recoveryStream, catalog |-> this.catalog]

\* target.copy(source); the source is read only
Copy ==
  /\ result.op = "none"
  /\ \E this \in Descriptors, source \in Descriptors :
    /\ result' = Result("copy", [this |-> this, source |-> source],
                        [this |-> copy(this, source), source |-> source])
    /\ UNCHANGED <<cat, last, bb, workers, ioVars>>

SpecCopy == Init /\ [][Copy]_vars

(***************************************************************************)
(* uint64_to_host_byteorder.  A uint64 is the sequence of its eight bytes, *)
(* the least significant first; shifts drop the bytes that leave the 64    *)
(* bits.                                                                   *)
(***************************************************************************)
RECURSIVE BitAnd(_, _)
BitAnd(a, b) ==
  IF a = 0 \/ b = 0 THEN 0
  ELSE (a % 2) * (b % 2) + 2 * BitAnd(a \div 2, b \div 2)

RECURSIVE BitOr(_, _)
BitOr(a, b) ==
  IF a = 0 THEN b ELSE IF b = 0 THEN a
  ELSE (IF a % 2 = 1 \/ b % 2 = 1 THEN 1 ELSE 0) + 2 * BitOr(a \div 2, b \div 2)

\* x << bits and x >> bits on uint64, bits a multiple of 8
Shl(x, bits) == [i \in 1..8 |-> IF i - (bits \div 8) >= 1 THEN x[i - (bits \div 8)] ELSE 0]
Shr(x, bits) == [i \in 1..8 |-> IF i + (bits \div 8) <= 8 THEN x[i + (bits \div 8)] ELSE 0]
And64(x, y) == [i \in 1..8 |-> BitAnd(x[i], y[i])]
Or64(x, y) == [i \in 1..8 |-> BitOr(x[i], y[i])]

\* the function with the fourth and fifth byte left in place
uint64_to_host_byteorderMiddleKept(x) ==
  Or64(And64(Shl(x, 56), <<0, 0, 0, 0, 0, 0, 0, 255>>),
  Or64(And64(Shl(x, 40), <<0, 0, 0, 0, 0, 0, 255, 0>>),
  Or64(And64(Shl(x, 24), <<0, 0, 0, 0, 0, 255, 0, 0>>),
  Or64(And64(x,          <<0, 0, 0, 255, 255, 0, 0, 0>>),
  Or64(And64(Shr(x, 24), <<0, 0, 255, 0, 0, 0, 0, 0>>),
  Or64(And64(Shr(x, 40), <<0, 255, 0, 0, 0, 0, 0, 0>>),
       And64(Shr(x, 56), <<255, 0, 0, 0, 0, 0, 0, 0>>)))))))

uint64_to_host_byteorder(x) ==
  Or64(And64(Shl(x, 56), <<0, 0, 0, 0, 0, 0, 0, 255>>),
  Or64(And64(Shl(x, 40), <<0, 0, 0, 0, 0, 0, 255, 0>>),
  Or64(And64(Shl(x, 24), <<0, 0, 0, 0, 0, 255, 0, 0>>),
  Or64(And64(Shl(x, 8),  <<0, 0, 0, 0, 255, 0, 0, 0>>),
  Or64(And64(Shr(x, 8),  <<0, 0, 0, 255, 0, 0, 0, 0>>),
  Or64(And64(Shr(x, 24), <<0, 0, 255, 0, 0, 0, 0, 0>>),
  Or64(And64(Shr(x, 40), <<0, 255, 0, 0, 0, 0, 0, 0>>),
       And64(Shr(x, 56), <<255, 0, 0, 0, 0, 0, 0, 0>>))))))))

\* the bytes the arguments are made of: 0x01, 0x80, 0xff
Bytes == {1, 128, 255}

\* the function applied to x, and to what it returned
ByteOrder ==
  /\ result.op = "none"
  /\ \E x \in [1..8 -> Bytes] :
    /\ result' = Result("uint64_to_host_byteorder", x,
                        [once |-> uint64_to_host_byteorder(x),
                         twice |-> uint64_to_host_byteorder(uint64_to_host_byteorder(x))])
    /\ UNCHANGED <<cat, last, bb, workers, ioVars>>

SpecByteOrder == Init /\ [][ByteOrder]_vars

\* the launcher among commands that open transactions
NextLauncher ==
  \/ CreateArchive(UDefault) \/ DropArchive(UDefault)
  \/ StartLauncher \/ WorkerExecute \/ WorkerExit
  \/ Prompt

SpecLauncher == Init /\ [][NextLauncher]_vars

(***************************************************************************)
(* Calls on the ring and on its buffers, made by the thread that owns the  *)
(* ring, and the completions the kernel posts.                             *)
(***************************************************************************)
QueueDepths == {1, DEFAULT_QUEUE_DEPTH}
BlockSizes == {1, DEFAULT_BLOCK_SIZE}

\* the sizes and offsets around the bounds of a buffer of cap bytes
Edge(cap) == {-1, 0, cap - 1, cap, cap + 1}

Setup ==
  \E ok \in BOOLEAN :
    LET r == IOUring_setup(ring, "file", ok)
    IN  /\ ring' = r.obj
        /\ call' = Call("setup", 0, ok, r.exc, r.val, NoBuf, ring.initialized)
        /\ UNCHANGED <<cat, last, bb, workers, vbuf, result>>

Exit ==
  LET r == IOUring_exit(ring)
  IN  /\ ring' = r.obj
      /\ call' = Call("exit", 0, 0, r.exc, r.val, NoBuf, ring.initialized)
      /\ UNCHANGED <<cat, last, bb, workers, vbuf, result>>

SetQueueDepth ==
  \E queue_depth \in QueueDepths :
    LET r == IOUring_setQueueDepth(ring, queue_depth)
    IN  /\ ring' = r.obj
        /\ call' = Call("setQueueDepth", 0, queue_depth, r.exc, r.val, NoBuf,
                        ring.initialized)
        /\ UNCHANGED <<cat, last, bb, workers, vbuf, result>>

SetBlockSize ==
  \E block_size \in BlockSizes :
    LET r == IOUring_setBlockSize(ring, block_size)
    IN  /\ ring' = r.obj
        /\ call' = Call("setBlockSize", 0, block_size, r.exc, r.val, NoBuf, ring.initialized)
        /\ UNCHANGED <<cat, last, bb, workers, vbuf, result>>

GetRing ==
  LET r == IOUring_getRing(ring)
  IN  /\ call' = Call("getRing", 0, 0, r.exc, r.val, NoBuf, ring.initialized)
      /\ UNCHANGED <<cat, last, bb, workers, ring, vbuf, result>>

AllocBuffer ==
  /\ Len(vbuf) < MaxVbufs
  /\ vbuf' = Append(vbuf, IOUring_alloc_buffer(ring))
  /\ call' = Call("alloc_buffer", Len(vbuf) + 1, 0, NoErr, Nil, NoBuf, ring.initialized)
  /\ UNCHANGED <<cat, last, bb, workers, ring, result>>

SetEffectiveSize ==
  \E i \in DOMAIN vbuf :
    \E size \in Edge(getSize(vbuf[i])) :
      LET r == setEffectiveSize(vbuf[i], size)
      IN  /\ vbuf' = [vbuf EXCEPT ![i] = r.obj]
          /\ call' = Call("setEffectiveSize", i, size, r.exc, r.val, vbuf[i],
                          ring.initialized)
          /\ UNCHANGED <<cat, last, bb, workers, ring, result>>

SetOffset ==
  \E i \in DOMAIN vbuf :
    \E offset \in Edge(getSize(vbuf[i])) :
      LET r == setOffset(vbuf[i], offset)
      IN  /\ vbuf' = [vbuf EXCEPT ![i] = r.obj]
          /\ call' = Call("setOffset", i, offset, r.exc, r.val, vbuf[i], ring.initialized)
          /\ UNCHANGED <<cat, last, bb, workers, ring, result>>

\* read(file, buf, pos) and write(file, buf, pos)
Submit ==
  \E op \in {"read", "write"}, i \in DOMAIN vbuf :
    /\ ring.submitted < MaxRequests
    /\ LET r == IOUring_submit(ring, op, vbuf[i], i, 0)
       IN  /\ ring' = r.obj
           /\ call' = Call(op, i, 0, r.exc, r.val, vbuf[i], ring.initialized)
           /\ UNCHANGED <<cat, last, bb, workers, vbuf, result>>

\* the kernel completes any of the requests in flight: with an error, or
\* with a number of bytes up to the length of the request
Complete ==
  \E q \in ring.inflight :
    \E res \in {-1, 1, q.len} :
      /\ ring' = IOUring_complete(ring, q, res)
      /\ UNCHANGED <<cat, last, bb, workers, vbuf, call, result>>

\* the requests that have not been handled: in flight or completed
Outstanding(r) ==
  {[id |-> q.id, buf |-> q.buf] : q \in r.inflight} \cup
  {[id |-> r.cq[k].id, buf |-> r.cq[k].buf] : k \in DOMAIN r.cq}

\* handle_current_io(buffer), called for the requests in the order they
\* were submitted in, returns once a completion is there
HandleCurrentIo ==
  \E i \in DOMAIN vbuf :
    /\ \E q \in Outstanding(ring) :
         q.buf = i /\ \A o \in Outstanding(ring) : q.id <= o.id
    /\ ring.cq # <<>>
    /\ LET r == IOUring_handle_current_io(ring, vbuf[i])
       IN  /\ ring' = r.ring
           /\ vbuf' = [vbuf EXCEPT ![i] = r.buf]
           /\ call' = Call("handle_current_io", i, IOUring_wait(ring), r.exc, r.val, vbuf[i],
                           ring.initialized)
           /\ UNCHANGED <<cat, last, bb, workers, result>>

\* buffers allocated for rings of every configuration, sized and positioned
NextVbuf ==
  \/ SetQueueDepth \/ SetBlockSize
  \/ AllocBuffer \/ SetEffectiveSize \/ SetOffset

SpecVbuf == Init /\ [][NextVbuf]_vars

\* a ring set up and torn down, with requests in flight on its buffers
NextRing ==
  \/ Setup \/ Exit \/ SetQueueDepth \/ GetRing
  \/ AllocBuffer \/ Submit \/ Complete \/ HandleCurrentIo

SpecRing == Init /\ [][NextRing]_vars

NextArchive ==
  \/ CreateArchive(UArchive) \/ DropArchive(UArchive)
  \/ CreateConnection(UArchive) \/ DropConnection(UArchive)
  \/ Prompt

SpecArchive == Init /\ [][NextArchive]_vars

Next ==
  \/ CreateArchive(USmall) \/ AlterArchive(USmall) \/ DropArchive(USmall)
  \/ ListArchive(USmall) \/ VerifyArchive(USmall)
  \/ CreateConnection(USmall) \/ DropConnection(USmall) \/ ListConnection(USmall)
  \/ ListBackupCatalog(USmall)
  \/ CreateBackupProfile(USmall) \/ DropBackupProfile(USmall) \/ ListBackupProfile(USmall)
  \/ StartBasebackup(USmall) \/ StartBasebackupSteps
  \/ Prompt

Spec == Init /\ [][Next]_vars

\* every command of the foreground process but the launcher, with and
\* without a catalog handle
NextCommands ==
  \/ CreateArchive(UDefault) \/ AlterArchive(UDefault) \/ DropArchive(UDefault)
  \/ ListArchive(UDefault) \/ VerifyArchive(UDefault)
  \/ CreateConnection(UDefault) \/ DropConnection(UDefault) \/ ListConnection(UDefault)
  \/ ListBackupCatalog(UDefault)
  \/ CreateBackupProfile(UDefault) \/ DropBackupProfile(UDefault)
  \/ ListBackupProfile(UDefault)
  \/ StartBasebackup(UDefault) \/ StartBasebackupSteps
  \/ BackgroundWorkerCommand
  \/ Prompt

SpecCommands == Init /\ [][NextCommands]_vars

\* START BASEBACKUP in one process and DROP ARCHIVE in another
NextConcurrent ==
  \/ CreateArchive(UDefault)
  \/ StartBasebackup(UDefault) \/ StartBasebackupSteps
  \/ ConcurrentDropArchive
  \/ Prompt

SpecConcurrent == Init /\ [][NextConcurrent]_vars

\* START BASEBACKUP alone, on the archives CREATE ARCHIVE has made
NextBasebackup ==
  \/ CreateArchive(USmall)
  \/ StartBasebackup(USmall) \/ StartBasebackupSteps
  \/ Prompt

SpecBasebackup == Init /\ [][NextBasebackup]_vars

\* archives with their connections and base backups, created and dropped
NextOrphans ==
  \/ CreateArchive(USmall) \/ DropArchive(USmall)
  \/ CreateConnection(USmall) \/ DropConnection(USmall)
  \/ StartBasebackup(USmall) \/ StartBasebackupSteps
  \/ Prompt

SpecOrphans == Init /\ [][NextOrphans]_vars

\* the connections of an archive, created and dropped
NextConnection ==
  \/ CreateArchive(UConn) \/ DropArchive(UConn)
  \/ CreateConnection(UConn) \/ DropConnection(UConn)
  \/ Prompt

SpecConnection == Init /\ [][NextConnection]_vars

\* backup profiles created, listed and dropped
NextProfile ==
  \/ CreateArchive(UProfile)
  \/ CreateBackupProfile(UProfile) \/ DropBackupProfile(UProfile)
  \/ ListBackupProfile(UProfile)
  \/ Prompt

SpecProfile == Init /\ [][NextProfile]_vars

\* START BASEBACKUP with and without PROFILE, while P is created and the
\* default profile dropped
NextBasebackupProfile ==
  \/ CreateArchive(UProfile)
  \/ CreateBackupProfile(UNamed) \/ DropBackupProfile(UDefault)
  \/ StartBasebackup(UProfile) \/ StartBasebackupSteps
  \/ Prompt

SpecBasebackupProfile == Init /\ [][NextBasebackupProfile]_vars

\* START BASEBACKUP in the foreground and in the background
NextBackground ==
  \/ CreateArchive(UDefault)
  \/ StartBasebackupWhole(UDefault)
  \/ Prompt

SpecBackground == Init /\ [][NextBackground]_vars

\* archives created and altered
NextAlter ==
  \/ CreateArchive(UAlter) \/ AlterArchive(UAlter)
  \/ Prompt

SpecAlter == Init /\ [][NextAlter]_vars

(***************************************************************************)
(* Properties.  They are stated over the states between commands: last is  *)
(* the command that has just left execute(), last.pre what it found,       *)
(* cat.log the catalog and stream calls it made.                           *)
(***************************************************************************)
Called(name) == \E i \in DOMAIN cat.log : cat.log[i] = name
Left(tag) == last.tag = tag /\ bb.pc = "idle"
BasebackupConnections(db, id) ==
  {k \in db.conns : k.archive_id = id /\ k.type = CONNECTION_TYPE_BASEBACKUP}
\* the rows are the ones found; opening a catalog that does not exist yet
\* creates it with its default profile
SameCatalog(db, pre) == db = pre \/ (pre = EmptyDb /\ db = InitialDb)
ArchivesAt(db, directory) == {a \in db.archives : a.directory = directory}
ArchivesNamed(db, name) == {a \in db.archives : a.name = name}

\* C1: once START BASEBACKUP has registered a backup and execute() has been
\* left, by return or by exception (a failure of the abort or of the finalize
\* transaction included), the row of that backup is not in progress: it is
\* ready or aborted.
C1_NoBackupLeftInProgress ==
  (Left("START_BASEBACKUP") /\ last.run.registered) =>
    \A b \in cat.db.backups :
      b.id = last.run.id => b.status \in {BASEBACKUP_STATUS_READY, BASEBACKUP_STATUS_ABORTED}

\* C2: when a step after the registration fails with E1 and the abort
\* transaction of the handler fails with E2, execute() is left by E1 (its
\* message, not the one of E2), no transaction is open and the abort has no
\* effect: the row is as the registration left it.
C2_PrimaryErrorSurvivesAbortFailure ==
  (Left("START_BASEBACKUP") /\ last.run.registered /\ last.run.secondary.raised) =>
    /\ last.out.raised
    /\ last.out.msg = last.run.primary.msg
    /\ last.out.msg # last.run.secondary.msg
    /\ ~cat.intx
    /\ (Called("abortBasebackup") => Called("rollbackTransaction"))
    /\ \A b \in cat.db.backups :
         b.id = last.run.id => b.status = BASEBACKUP_STATUS_IN_PROGRESS

\* a run in which abortBasebackup was called inside the abort transaction and
\* the transaction failed
C2_Witness ==
  /\ Left("START_BASEBACKUP") /\ last.run.registered
  /\ last.run.secondary.raised /\ last.run.primary.raised
  /\ Called("abortBasebackup")

\* C3: when START BASEBACKUP fails before the registration has been committed,
\* the catalog has no new backup row, abortBasebackup is not called and the
\* backup directory the command created is gone again.
C3_PreRegistrationFailureLeavesNothing ==
  (Left("START_BASEBACKUP") /\ last.out.raised /\ ~last.run.registered) =>
    /\ cat.db.backups = last.pre.db.backups
    /\ ~Called("abortBasebackup")
    /\ cat.dirs = last.pre.dirs

\* C4: between commands every archive of the catalog has exactly one
\* connection of type basebackup.
C4_ExactlyOneBasebackupConnection ==
  \A a \in cat.db.archives : Cardinality(BasebackupConnections(cat.db, a.id)) = 1

\* C5: no command calls startTransaction while the transaction it started is
\* open, and none calls commitTransaction or rollbackTransaction without an
\* open transaction; this already for the runs in which no call of the catalog
\* or of the stream breaks down.
C5_TransactionsNotReentered ==
  ~cat.faulted =>
  cat.viol \cap {"start inside own transaction", "commit without transaction",
                 "rollback without transaction"} = {}

\* C6: a command that started a transaction and returned has committed it, one
\* that raised has rolled it back, and the transaction a command started is
\* never open once execute() has been left.
C6_CommitOnReturnRollbackOnRaise ==
  (last.tag # "NONE" /\ bb.pc = "idle" /\ Called("startTransaction")) =>
    /\ ~(cat.intx /\ cat.mine)
    /\ ~last.out.raised => Called("commitTransaction")
    /\ (last.out.raised /\ cat.mine) => Called("rollbackTransaction")

\* C7: the exception that leaves execute() is the one that was raised inside the
\* transaction, with its kind and its message.  Every exception raised by the
\* catalog, the archive or the stream has one of the kinds CCatalogIssue,
\* CArchiveIssue and StreamingFailure, so the one that reaches the caller has
\* one of them too.
C7_ErrorReachesCallerUnchanged ==
  (last.tag # "NONE" /\ last.out.raised) =>
    last.out.kind \in {"CCatalogIssue", "CArchiveIssue", "StreamingFailure"}

\* C8: CREATE ARCHIVE on a directory no archive has is atomic: after a return
\* the catalog has the archive and its basebackup connection, after an
\* exception it has neither and is what it was.
C8_CreateArchiveAtomic ==
  (Left("CREATE_ARCHIVE") /\ ArchivesAt(last.pre.db, last.cmd.directory) = {}) =>
    IF last.out.raised
    THEN /\ ArchivesAt(cat.db, last.cmd.directory) = {}
         /\ \A k \in cat.db.conns : \E a \in cat.db.archives : a.id = k.archive_id
         /\ "start inside inherited transaction" \notin cat.viol =>
              SameCatalog(cat.db, last.pre.db)
    ELSE /\ Cardinality(ArchivesAt(cat.db, last.cmd.directory)) = 1
         /\ \A a \in ArchivesAt(cat.db, last.cmd.directory) :
              /\ a.name = last.cmd.archive_name
              /\ Cardinality(BasebackupConnections(cat.db, a.id)) = 1
              /\ cat.db.archives = last.pre.db.archives \cup {a}
              /\ cat.db.conns \ last.pre.db.conns = BasebackupConnections(cat.db, a.id)
         /\ ~cat.intx

\* the insert of the connection fails after the archive row has been written
C8_WitnessFailure ==
  /\ Left("CREATE_ARCHIVE") /\ ArchivesAt(last.pre.db, last.cmd.directory) = {}
  /\ last.out.raised
  /\ Called("createArchive") /\ Called("createCatalogConnection")
  /\ ~Called("commitTransaction")

\* C9: CREATE ARCHIVE on a directory an archive already has: with existsOk the
\* affected attributes of that archive are updated and committed, without it
\* the command fails with "archive already exists" and the catalog is what it
\* was.  (Runs in which a catalog call breaks down, the updated name collides
\* with another archive or another command left its transaction open are not
\* the claim's case.)
C9_CreateArchiveOnExistingDirectory ==
  (/\ Left("CREATE_ARCHIVE") /\ last.cmd.hasCatalog /\ ~cat.faulted
   /\ ArchivesAt(last.pre.db, last.cmd.directory) # {}
   /\ "start inside inherited transaction" \notin cat.viol
   /\ \A a \in ArchivesNamed(last.pre.db, last.cmd.archive_name) :
        a.directory = last.cmd.directory) =>
    IF last.flag
    THEN /\ ~last.out.raised
         /\ Called("updateArchiveAttributes") /\ Called("commitTransaction")
         /\ ~cat.intx
    ELSE /\ last.out.raised
         /\ Len(last.out.msg) > 0 /\ last.out.msg[1] = "archive already exists"
         /\ SameCatalog(cat.db, last.pre.db)

\* C10: DROP ARCHIVE of a name no archive has: without existsOk it is rejected,
\* with existsOk it returns, calls no drop routine of the catalog and leaves
\* the catalog what it was.
C10_DropMissingArchive ==
  (/\ Left("DROP_ARCHIVE") /\ last.cmd.hasCatalog /\ ~cat.faulted
   /\ ArchivesNamed(last.pre.db, last.cmd.archive_name) = {}
   /\ "start inside inherited transaction" \notin cat.viol) =>
    /\ SameCatalog(cat.db, last.pre.db)
    /\ IF last.flag THEN ~last.out.raised /\ ~Called("dropArchive")
                    ELSE last.out.raised

ArchiveIds(db) == {a.id : a \in db.archives}
BackupIdsOf(db, ids) == {b.id : b \in {x \in db.backups : x.archive_id \in ids}}

ConnectionsOf(db, id, type) == {k \in db.conns : k.archive_id = id /\ k.type = type}

C13_DropConnectionFrame ==
  (/\ Left("DROP_CONNECTION") /\ last.cmd.hasCatalog /\ ~cat.faulted
   /\ "start inside inherited transaction" \notin cat.viol) =>
    \A a \in ArchivesNamed(last.pre.db, last.cmd.archive_name) :
      LET hit == ConnectionsOf(last.pre.db, a.id, last.cmd.coninfo.type)
      IN  IF hit # {}
          THEN /\ ~last.out.raised /\ ~cat.intx
               /\ Cardinality(hit) = 1
               /\ cat.db = [last.pre.db EXCEPT !.conns = @ \ hit]
          ELSE /\ last.out.raised
               /\ last.out.msg[1] = "archive does not have a connection of type"
               /\ ~Called("dropCatalogConnection")
               /\ cat.db = last.pre.db

\* the streamer connection of an archive is dropped while the archive has a
\* basebackup connection and another archive has connections of both types
C13_Witness ==
  /\ Left("DROP_CONNECTION") /\ ~last.out.raised
  /\ last.cmd.coninfo.type = CONNECTION_TYPE_STREAMER
  /\ \E a \in ArchivesNamed(last.pre.db, last.cmd.archive_name) :
       /\ ConnectionsOf(cat.db, a.id, CONNECTION_TYPE_BASEBACKUP) # {}
       /\ ConnectionsOf(cat.db, a.id, CONNECTION_TYPE_STREAMER) = {}
       /\ \E b \in cat.db.archives :
            /\ b.id # a.id
            /\ ConnectionsOf(cat.db, b.id, CONNECTION_TYPE_STREAMER) # {}
            /\ ConnectionsOf(cat.db, b.id, CONNECTION_TYPE_BASEBACKUP) # {}

\* the archive has no connection of the requested type
C13_WitnessRejected ==
  /\ Left("DROP_CONNECTION") /\ last.out.raised /\ ~cat.faulted
  /\ \E a \in ArchivesNamed(last.pre.db, last.cmd.archive_name) :
       ConnectionsOf(last.pre.db, a.id, last.cmd.coninfo.type) = {}

ResolvesArchiveByName ==
  {"CREATE_CONNECTION", "DROP_CONNECTION", "LIST_CONNECTION", "LIST_BACKUP_CATALOG",
   "VERIFY_ARCHIVE", "START_BASEBACKUP"}
Names_(msg, name) == \E i \in DOMAIN msg : msg[i] = name

\* C14: a command that resolves its archive by name and finds no archive of
\* that name is left by an error that names the archive; it has changed no row
\* of the catalog, connected no stream, verified no directory and created
\* none.  (Runs in which a catalog call breaks down or another command left
\* its transaction open are not the claim's case.)
C14_MissingArchiveRejected ==
  (/\ last.tag \in ResolvesArchiveByName /\ bb.pc = "idle"
   /\ last.cmd.hasCatalog /\ ~cat.faulted
   /\ "start inside inherited transaction" \notin cat.viol
   /\ ArchivesNamed(last.pre.db, last.cmd.archive_name) = {}) =>
    /\ last.out.raised
    /\ Names_(last.out.msg, last.cmd.archive_name)
    /\ SameCatalog(cat.db, last.pre.db)
    /\ cat.dirs = last.pre.dirs
    /\ ~Called("connect") /\ ~Called("create") /\ ~Called("verify")

ProfilesNamed(db, name) == {p \in db.profiles : p.name = name}

\* C15: CREATE BACKUP PROFILE for a name the catalog already has fails with
\* "already exists" without IF NOT EXISTS and does nothing with it; either
\* way no profile is inserted and the stored profile keeps every attribute,
\* whatever settings the second command asked for.  (Runs in which a catalog
\* call breaks down or another command left its transaction open are not the
\* claim's case.)
C15_CreateExistingBackupProfile ==
  (/\ Left("CREATE_BACKUP_PROFILE") /\ last.cmd.hasCatalog /\ ~cat.faulted
   /\ "start inside inherited transaction" \notin cat.viol
   /\ ProfilesNamed(last.pre.db, last.cmd.backup_profile.name) # {}) =>
    /\ IF last.flag THEN ~last.out.raised
       ELSE /\ last.out.raised
            /\ last.out.msg = <<"backup profile already exists",
                                last.cmd.backup_profile.name>>
    /\ ~Called("createBackupProfile")
    /\ cat.db = last.pre.db
    /\ ~cat.intx

\* a gzip profile P exists and CREATE BACKUP PROFILE IF NOT EXISTS P asks for
\* zstd: the command returns and P is still gzip
C15_Witness ==
  /\ Left("CREATE_BACKUP_PROFILE") /\ last.flag /\ ~last.out.raised
  /\ last.cmd.backup_profile.compress_type = "zstd"
  /\ \E p \in ProfilesNamed(last.pre.db, last.cmd.backup_profile.name) :
       /\ p.compress_type = "gzip"
       /\ p \in cat.db.profiles

\* the same without IF NOT EXISTS: the command is rejected
C15_WitnessRejected ==
  /\ Left("CREATE_BACKUP_PROFILE") /\ ~last.flag /\ last.out.raised /\ ~cat.faulted
  /\ last.cmd.backup_profile.compress_type = "zstd"
  /\ \E p \in ProfilesNamed(last.pre.db, last.cmd.backup_profile.name) :
       p.compress_type = "gzip" /\ p \in cat.db.profiles

\* C16: after CREATE BACKUP PROFILE has inserted a new profile and returned,
\* the profile the catalog returns for that name has a profile_id >= 0 and
\* the name, compress_type, max_rate, label, fast_checkpoint, include_wal,
\* wait_for_wal and noverify_checksums of the command's descriptor.
C16_CreatedBackupProfileRoundTrip ==
  (/\ Left("CREATE_BACKUP_PROFILE") /\ ~last.out.raised
   /\ Called("createBackupProfile")) =>
    /\ ProfilesNamed(cat.db, last.cmd.backup_profile.name) # {}
    /\ \A p \in ProfilesNamed(cat.db, last.cmd.backup_profile.name) :
         /\ p.profile_id >= 0
         /\ \A f \in ProfileFields : p[f] = last.cmd.backup_profile[f]

\* C16 without noverify_checksums: the seven attributes the command marks as
\* affected are stored as given
C16_MarkedAttributesRoundTrip ==
  (/\ Left("CREATE_BACKUP_PROFILE") /\ ~last.out.raised
   /\ Called("createBackupProfile")) =>
    /\ ProfilesNamed(cat.db, last.cmd.backup_profile.name) # {}
    /\ \A p \in ProfilesNamed(cat.db, last.cmd.backup_profile.name) :
         /\ p.profile_id >= 0
         /\ \A f \in CreateBackupProfile_attr : p[f] = last.cmd.backup_profile[f]

\* C18: once CREATE ARCHIVE has succeeded in the catalog, the profile
\* "default" can be resolved between any two commands, DROP BACKUP PROFILE
\* among them.  (The archives of this specification are never dropped, so an
\* archive row stands for a CREATE ARCHIVE that succeeded.)
C18_DefaultProfileResolvable ==
  (cat.db.archives # {} /\ bb.pc = "idle" /\ ~cat.intx) =>
    \E p \in ProfilesNamed(cat.db, "default") : p.profile_id >= 0

\* the profile START BASEBACKUP has to use: the one PROFILE names, else default
ProfileNameOf(cmd) ==
  IF cmd.backup_profile.name # "" THEN cmd.backup_profile.name ELSE "default"

\* C17: START BASEBACKUP goes on past its profile lookup only with the stored
\* profile PROFILE names, or the stored profile "default" when PROFILE was
\* omitted.  When the catalog has no such profile the command is left by an
\* archive error before any stream connect, directory creation or backup
\* registration, with no transaction open and the catalog as found.  (Runs
\* in which a catalog call breaks down or another command left its
\* transaction open are not the claim's case.)
C17_BasebackupProfileResolved ==
  /\ bb.pc \notin {"idle", "profile"} =>
       /\ bb.backupProfile.profile_id >= 0
       /\ bb.backupProfile.name = ProfileNameOf(bb.cmd)
       /\ bb.backupProfile \in bb.pre.db.profiles
  /\ (/\ Left("START_BASEBACKUP") /\ last.cmd.hasCatalog /\ ~cat.faulted
      /\ "start inside inherited transaction" \notin cat.viol
      /\ ArchivesNamed(last.pre.db, last.cmd.archive_name) # {}
      /\ ProfilesNamed(last.pre.db, ProfileNameOf(last.cmd)) = {}) =>
       /\ last.out.raised /\ last.out.kind = "CArchiveIssue"
       /\ last.out.msg = IF last.cmd.backup_profile.name # ""
                         THEN <<"backup profile does not exist", ProfileNameOf(last.cmd)>>
                         ELSE <<"\"default\" profile not found">>
       /\ ~Called("connect") /\ ~Called("create") /\ ~Called("registerBasebackup")
       /\ ~cat.intx
       /\ cat.db = last.pre.db /\ cat.dirs = last.pre.dirs

\* START BASEBACKUP ... PROFILE P has connected its stream with the gzip
\* profile P, while the default profile is stored as well
C17_Witness ==
  /\ bb.pc = "register" /\ Called("connect")
  /\ bb.cmd.backup_profile.name = "P"
  /\ bb.backupProfile.compress_type = "gzip"
  /\ ProfilesNamed(cat.db, "default") # {}

\* PROFILE omitted and the default profile dropped: the command is rejected
C17_WitnessNoDefault ==
  /\ Left("START_BASEBACKUP") /\ last.out.raised /\ ~cat.faulted
  /\ last.cmd.backup_profile.name = ""
  /\ ArchivesNamed(last.pre.db, last.cmd.archive_name) # {}
  /\ ProfilesNamed(last.pre.db, "default") = {}
  /\ ProfilesNamed(last.pre.db, "P") # {}

\* PROFILE P given and no profile P stored: the command is rejected
C17_WitnessNoNamed ==
  /\ Left("START_BASEBACKUP") /\ last.out.raised /\ ~cat.faulted
  /\ last.cmd.backup_profile.name = "P"
  /\ ArchivesNamed(last.pre.db, last.cmd.archive_name) # {}
  /\ ProfilesNamed(last.pre.db, "P") = {}

\* every call b of the running command comes after a call a
Precedes(a, b) ==
  \A j \in DOMAIN cat.log : cat.log[j] = b => \E i \in 1..(j - 1) : cat.log[i] = a
\* no call a of the running command comes after a call b
NotAfter(a, b) ==
  \A i, j \in DOMAIN cat.log : (cat.log[i] = a /\ cat.log[j] = b) => i < j
\* the id and the catalog of the START BASEBACKUP that runs or has just left
RunId == IF bb.pc = "idle" THEN last.run.id ELSE bb.descr.id
RunPre == IF bb.pc = "idle" THEN last.pre ELSE bb.pre

\* C19: in every START BASEBACKUP, as far as it gets, the calls come in the
\* order connect, identify, begin of the base backup, registerBasebackup with
\* its commit, readTablespaceInfo, then for each tablespace
\* registerTablespaceForBackup right before its backupTablespace, then end,
\* disconnect and only then finalizeBasebackup; every tablespace row the
\* command adds carries the id (>= 0) the registration returned.
C19_BasebackupStepOrder ==
  (bb.pc # "idle" \/ last.tag = "START_BASEBACKUP") =>
    /\ Precedes("connect", "identify") /\ Precedes("identify", "basebackup")
    /\ Precedes("basebackup", "start") /\ Precedes("start", "registerBasebackup")
    /\ \A j \in DOMAIN cat.log : cat.log[j] = "readTablespaceInfo" =>
         /\ j > 2 /\ cat.log[j - 1] = "commitTransaction"
         /\ cat.log[j - 2] = "registerBasebackup"
    /\ Precedes("readTablespaceInfo", "registerTablespaceForBackup")
    /\ \A j \in DOMAIN cat.log : cat.log[j] = "backupTablespace" =>
         j > 1 /\ cat.log[j - 1] = "registerTablespaceForBackup"
    /\ Precedes("readTablespaceInfo", "end")
    /\ NotAfter("registerTablespaceForBackup", "end") /\ NotAfter("backupTablespace", "end")
    /\ Precedes("end", "disconnect") /\ Precedes("disconnect", "finalizeBasebackup")
    /\ \A x \in {"connect", "identify", "basebackup", "start", "registerBasebackup",
                  "readTablespaceInfo", "end", "disconnect"} :
         NotAfter(x, "finalizeBasebackup")
    /\ \A ts \in cat.db.tablespaces \ RunPre.db.tablespaces :
         /\ ts.backup_id = RunId /\ ts.backup_id >= 0
         /\ \E b \in cat.db.backups : b.id = ts.backup_id

\* a base backup of two tablespaces has run to its end
C19_Witness ==
  /\ Left("START_BASEBACKUP") /\ ~last.out.raised
  /\ Called("finalizeBasebackup") /\ Called("backupTablespace")
  /\ Cardinality({ts \in cat.db.tablespaces : ts.backup_id = last.run.id}) = MaxTablespaces

C21_ReadyBackupComplete ==
  /\ \A b \in cat.db.backups :
       b.status = BASEBACKUP_STATUS_READY =>
         /\ b.stopped # Unset /\ b.xlogposend # Unset
         /\ b.stopped >= b.started /\ b.xlogposend >= b.xlogpos
  /\ (bb.pc # "idle" \/ last.tag = "START_BASEBACKUP") =>
       \A b \in cat.db.backups \ RunPre.db.backups :
         (b.id = RunId /\ b.status = BASEBACKUP_STATUS_READY) =>
           /\ b.xlogposend \in DOMAIN cat.log /\ cat.log[b.xlogposend] = "end"
           /\ NotAfter("end", "finalizeBasebackup")
           /\ b.xlogpos \in DOMAIN cat.log /\ cat.log[b.xlogpos] = "start"

\* a backup has become ready, later than it started and further in the log
C21_Witness ==
  /\ Left("START_BASEBACKUP") /\ ~last.out.raised
  /\ \E b \in cat.db.backups :
       /\ b.id = last.run.id /\ b.status = BASEBACKUP_STATUS_READY
       /\ b.stopped > b.started /\ b.xlogposend > b.xlogpos /\ b.xlogpos # Unset

C22_WitnessAborted ==
  /\ Left("START_BASEBACKUP") /\ last.flag /\ last.out.raised
  /\ Called("abortBasebackup")
  /\ \E b \in cat.db.backups : b.status = BASEBACKUP_STATUS_ABORTED

\* the columns of an archive row that the descriptor d would change
Affected(d) ==
  d.affectedAttributes \cap {SQL_ARCHIVE_NAME_ATTNO, SQL_ARCHIVE_DIRECTORY_ATTNO,
                              SQL_ARCHIVE_COMPRESSION_ATTNO}
\* the row a has the values of d in the columns attrs
HasValues(a, d, attrs) ==
  /\ SQL_ARCHIVE_NAME_ATTNO \in attrs => a.name = d.archive_name
  /\ SQL_ARCHIVE_DIRECTORY_ATTNO \in attrs => a.directory = d.directory
  /\ SQL_ARCHIVE_COMPRESSION_ATTNO \in attrs => a.compression = d.compression
\* the update of archive a by d would put it on the directory of another one
Collides(db, a, d) ==
  /\ SQL_ARCHIVE_DIRECTORY_ATTNO \in d.affectedAttributes
  /\ \E b \in db.archives : b.id # a.id /\ b.directory = d.directory

C23_WitnessMissing ==
  /\ Left("ALTER_ARCHIVE") /\ last.out.raised /\ ~cat.faulted /\ ~last.flag
  /\ last.cmd.hasCatalog
  /\ cat.db.archives # {}
  /\ ArchivesNamed(last.pre.db, last.cmd.archive_name) = {}

\* ALTER ARCHIVE IF EXISTS of a missing archive
C23_WitnessIgnored ==
  /\ Left("ALTER_ARCHIVE") /\ ~last.out.raised /\ last.flag
  /\ cat.db.archives # {}
  /\ ArchivesNamed(last.pre.db, last.cmd.archive_name) = {}

UpdatesArchive == {"ALTER_ARCHIVE", "CREATE_ARCHIVE"}
\* the archives the command that has just left found under its name (ALTER
\* ARCHIVE) or on its directory (CREATE ARCHIVE)
Target ==
  IF last.tag = "ALTER_ARCHIVE" THEN ArchivesNamed(last.pre.db, last.cmd.archive_name)
  ELSE ArchivesAt(last.pre.db, last.cmd.directory)

\* C24: no ALTER ARCHIVE and no CREATE ARCHIVE, whatever its affected
\* attributes, leaves an archive it found on another directory.
C24_DirectoryImmutable ==
  (last.tag \in UpdatesArchive /\ bb.pc = "idle") =>
    \A a \in last.pre.db.archives :
      \E b \in cat.db.archives : b.id = a.id /\ b.directory = a.directory

\* C24 for CREATE ARCHIVE alone: it resolves the archive by its directory and
\* leaves every archive where it was
C24_CreateArchiveKeepsDirectory ==
  (last.tag = "CREATE_ARCHIVE" /\ bb.pc = "idle") =>
    \A a \in last.pre.db.archives :
      \E b \in cat.db.archives : b.id = a.id /\ b.directory = a.directory

\* the columns of row b that differ from row a
Changed(a, b) ==
  {x \in {SQL_ARCHIVE_NAME_ATTNO, SQL_ARCHIVE_DIRECTORY_ATTNO,
          SQL_ARCHIVE_COMPRESSION_ATTNO} :
     \/ x = SQL_ARCHIVE_NAME_ATTNO /\ a.name # b.name
     \/ x = SQL_ARCHIVE_DIRECTORY_ATTNO /\ a.directory # b.directory
     \/ x = SQL_ARCHIVE_COMPRESSION_ATTNO /\ a.compression # b.compression}

\* an update by ALTER ARCHIVE or CREATE ARCHIVE IF NOT EXISTS changes columns
\* of the archive it addresses only, and of these only affected ones; every
\* other row of the catalog is as it was
UpdateFrame ==
  /\ \A a \in last.pre.db.archives :
       \E b \in cat.db.archives :
         /\ b.id = a.id
         /\ Changed(a, b) \subseteq (IF a \in Target THEN Affected(last.cmd) ELSE {})
  /\ Cardinality(cat.db.archives) = Cardinality(last.pre.db.archives)
  /\ cat.db.conns = last.pre.db.conns /\ cat.db.profiles = last.pre.db.profiles
  /\ cat.db.backups = last.pre.db.backups
  /\ cat.db.tablespaces = last.pre.db.tablespaces

\* C25: an update of an archive by ALTER ARCHIVE or CREATE ARCHIVE IF NOT
\* EXISTS changes the affected columns of that archive and nothing else; with
\* no affected attribute the command changes nothing and returns.  (Runs in
\* which a catalog call breaks down or another command left its transaction
\* open are not the second half's case.)
C25_UpdateFrame ==
  (last.tag \in UpdatesArchive /\ bb.pc = "idle" /\ Target # {}) =>
    /\ Called("updateArchiveAttributes") => UpdateFrame
    /\ (/\ last.cmd.affectedAttributes = {} /\ last.cmd.hasCatalog /\ ~cat.faulted
        /\ "start inside inherited transaction" \notin cat.viol
        /\ last.tag = "CREATE_ARCHIVE" => last.flag) =>
         ~last.out.raised /\ cat.db = last.pre.db

\* C25 for ALTER ARCHIVE alone
C25_AlterArchiveFrame ==
  (last.tag = "ALTER_ARCHIVE" /\ bb.pc = "idle" /\ Target # {}) =>
    /\ Called("updateArchiveAttributes") => UpdateFrame
    /\ (/\ last.cmd.affectedAttributes = {} /\ last.cmd.hasCatalog /\ ~cat.faulted
        /\ "start inside inherited transaction" \notin cat.viol) =>
         ~last.out.raised /\ cat.db = last.pre.db


\* C26: the worker process forked by START LAUNCHER works on a catalog
\* handle of its own: no worker holds the handle of the foreground process.
C26_WorkerCatalogIndependent ==
  \A w \in workers : w.cmdHandle.catalog # Foreground

\* no worker was forked while the handle it was given had a transaction open
C26_WorkerInheritsNoTransaction ==
  \A w \in workers : ~w.intx

(***************************************************************************)
(* The vectored buffer and the ring.  call is the call made last and       *)
(* call.pre the buffer it was made on, as the call found it.               *)
(***************************************************************************)
Capacity(b) == b.num_buffers * b.buffer_size

\* C27: the effective size of every vectored buffer is within
\* 0..num_buffers * buffer_size; setEffectiveSize() throws on a negative
\* size and on a size above the capacity and leaves the buffer as it was,
\* and it takes every size from 0 up to the capacity itself.
C27_EffectiveSizeBounded ==
  /\ \A i \in DOMAIN vbuf :
       getEffectiveSize(vbuf[i]) >= 0 /\ getEffectiveSize(vbuf[i]) <= Capacity(vbuf[i])
  /\ call.op = "setEffectiveSize" =>
       IF call.arg < 0 \/ call.arg > Capacity(call.pre)
       THEN call.out.raised /\ vbuf[call.buf] = call.pre
       ELSE ~call.out.raised /\ getEffectiveSize(vbuf[call.buf]) = call.arg

\* setEffectiveSize(capacity) was accepted on a buffer of several blocks
C27_Witness ==
  /\ call.op = "setEffectiveSize" /\ ~call.out.raised
  /\ call.pre.num_buffers > 1 /\ call.arg = Capacity(call.pre)
  /\ getEffectiveSize(vbuf[call.buf]) = Capacity(call.pre)

\* setEffectiveSize(capacity + 1) and setEffectiveSize(-1) were rejected on
\* a buffer that had an effective size
C27_WitnessAbove ==
  /\ call.op = "setEffectiveSize" /\ call.out.raised
  /\ call.arg = Capacity(call.pre) + 1 /\ getEffectiveSize(call.pre) > 0
C27_WitnessNegative ==
  /\ call.op = "setEffectiveSize" /\ call.out.raised
  /\ call.arg = -1 /\ getEffectiveSize(call.pre) > 0

C28_WitnessAbove ==
  /\ call.op = "setOffset" /\ call.out.raised
  /\ call.arg = Capacity(call.pre) + 1 /\ call.pre.buffer_pos.index > 0
C28_WitnessNegative ==
  /\ call.op = "setOffset" /\ call.out.raised
  /\ call.arg = -1 /\ call.pre.buffer_pos.index > 0

\* C29: available() is false on a new ring, true after a setup() that
\* returned, false after exit(), and no other call changes it;
\* setQueueDepth() throws once the ring is set up and getRing() throws
\* while it is not.
C29_AvailableBetweenSetupAndExit ==
  /\ call.op = "none" => ~IOUring_available(ring)
  /\ call.op = "setup" =>
       IOUring_available(ring) = (IF call.out.raised THEN call.was ELSE TRUE)
  /\ call.op = "exit" => ~IOUring_available(ring)
  /\ call.op \notin {"none", "setup", "exit"} => IOUring_available(ring) = call.was
  /\ (call.op = "setQueueDepth" /\ call.was) => call.out.raised
  /\ (call.op = "getRing" /\ ~call.was) => call.out.raised

\* exit() was called on a ring that was set up
C29_Witness ==
  call.op = "exit" /\ call.was /\ ~IOUring_available(ring)

\* setQueueDepth() was rejected after setup(); getRing() was rejected after exit()
C29_WitnessQueueDepth ==
  call.op = "setQueueDepth" /\ call.was /\ call.out.raised
C29_WitnessGetRing ==
  call.op = "getRing" /\ ~call.was /\ call.out.raised /\ vbuf # <<>>

C30_AcknowledgedOnce ==
  /\ \A i, j \in DOMAIN ring.acked : ring.acked[i] = ring.acked[j] => i = j
  /\ \A i \in DOMAIN ring.cq : \A j \in DOMAIN ring.acked : ring.cq[i].id # ring.acked[j]


\* C33: the details of a backup profile show MAX RATE as NOT RATED exactly
\* when max_rate is 0, and the number for every max_rate above 0.
C33_MaxRateShown ==
  (last.tag = "LIST_BACKUP_PROFILE" /\ last.flag /\ ~last.out.raised) =>
    \A p \in cat.db.profiles :
      p.name = result.arg =>
        IF p.max_rate = 0 THEN <<"MAX RATE", "NOT RATED">> \in result.val
        ELSE <<"MAX RATE(kbps)", p.max_rate>> \in result.val

\* the details of a profile with a rate were listed
C33_ListedRated ==
  /\ last.tag = "LIST_BACKUP_PROFILE" /\ last.flag /\ ~last.out.raised
  /\ \E p \in cat.db.profiles : p.name = result.arg /\ p.max_rate > 0

\* how often the command that completed last called name
Calls(name) == Cardinality({i \in DOMAIN cat.log : cat.log[i] = name})

\* C34: a DROP ARCHIVE that ends in its commit has called dropArchive() once
\* when the archive named existed and not at all when it did not.
C34_DropArchiveCalledOnce ==
  (/\ Left("DROP_ARCHIVE") /\ ~last.out.raised /\ ~cat.faulted
   /\ Called("commitTransaction")) =>
    Calls("dropArchive") =
      (IF \E a \in last.pre.db.archives : a.name = last.cmd.archive_name THEN 1 ELSE 0)

\* the calls that change rows of the catalog
Mutations ==
  {"createArchive", "updateArchiveAttributes", "dropArchive", "createCatalogConnection",
   "dropCatalogConnection", "createBackupProfile", "dropBackupProfile",
   "registerBasebackup", "abortBasebackup", "finalizeBasebackup",
   "registerTablespaceForBackup"}

\* call i of the running command is made after a startTransaction() of the
\* command that no commit or rollback has followed yet
InOwnTransaction(log, i) ==
  \E j \in 1..(i - 1) :
    /\ log[j] = "startTransaction"
    /\ \A k \in (j + 1)..(i - 1) : log[k] \notin {"commitTransaction", "rollbackTransaction"}

\* C35: every call of a command that changes rows of the catalog is made
\* while a transaction the command has started is open; so is every
\* registerTablespaceForBackup() of START BASEBACKUP.
C35_MutationsInTransaction ==
  \A i \in DOMAIN cat.log : cat.log[i] \in Mutations => InOwnTransaction(cat.log, i)

\* the same for the commands other than START BASEBACKUP
C35_OtherCommandsInTransaction ==
  (last.tag # "START_BASEBACKUP" /\ bb.pc = "idle") => C35_MutationsInTransaction

\* the call at position i of the log comes after a registerBasebackup whose
\* transaction was committed (a commit that fails is followed by the rollback
\* of the handler)
RegistrationCommitted(log, i) ==
  \E j \in 1..(i - 3) :
    /\ log[j] = "registerBasebackup"
    /\ log[j + 1] = "commitTransaction"
    /\ log[j + 2] # "rollbackTransaction"

C36_AtMostOnce ==
  (bb.pc # "idle" \/ last.tag = "START_BASEBACKUP") =>
    /\ Calls("abortBasebackup") + Calls("finalizeBasebackup") <= 1
    /\ \A i \in DOMAIN cat.log :
         cat.log[i] \in {"abortBasebackup", "finalizeBasebackup"} =>
           RegistrationCommitted(cat.log, i)

C36_StatusMoves ==
  \A b \in cat.db.backups : \A b2 \in cat'.db.backups :
    (b2.id = b.id /\ b2.status # b.status) =>
      /\ b.status = BASEBACKUP_STATUS_IN_PROGRESS
      /\ b2.status \in {BASEBACKUP_STATUS_READY, BASEBACKUP_STATUS_ABORTED}

\* C36: in one run of START BASEBACKUP abortBasebackup and finalizeBasebackup
\* are called at most once together, and only after registerBasebackup was
\* committed; the status of a base backup only moves from in progress to
\* ready or from in progress to aborted.
C36_AbortOrFinalizeOnce == [](C36_AtMostOnce) /\ [][C36_StatusMoves]_vars

C36_Aborted ==
  /\ Left("START_BASEBACKUP") /\ Calls("abortBasebackup") = 1
  /\ \E b \in cat.db.backups : b.id = last.run.id /\ b.status = BASEBACKUP_STATUS_ABORTED
C36_Finalized ==
  /\ Left("START_BASEBACKUP") /\ Calls("finalizeBasebackup") = 1
  /\ \E b \in cat.db.backups : b.id = last.run.id /\ b.status = BASEBACKUP_STATUS_READY
C36_FinalizeFailed ==
  /\ Left("START_BASEBACKUP") /\ Calls("finalizeBasebackup") = 1 /\ last.out.raised
  /\ Calls("abortBasebackup") = 0

\* a command without a catalog handle has just been executed
ExecutedDetached == last.tag = "NONE" /\ last'.tag # "NONE" /\ ~last'.cmd.hasCatalog

\* execute() has done nothing: no call on the catalog, no transaction, no
\* worker, no I/O
NothingDone ==
  /\ cat'.log = <<>> /\ cat'.avail = cat.avail /\ cat'.created = cat.created
  /\ cat'.intx = cat.intx /\ cat'.db = cat.db /\ cat'.dirs = cat.dirs
  /\ workers' = workers /\ ioVars' = ioVars /\ bb' = bb

RaisedArchiveIssue ==
  last'.out.raised /\ last'.out.kind = "CArchiveIssue" /\ last'.out.msg[1] # ""

\* C38 as stated: the execute() of every command that has no catalog handle
\* raises an archive error at once and does nothing else.
C38_NoCatalogRaises ==
  [][ExecutedDetached => (RaisedArchiveIssue /\ NothingDone)]_vars

\* C38: the execute() of every command that has no catalog handle does
\* nothing, and raises an archive error unless the command is the handle of a
\* background worker, whose execute() returns.
C38_NoCatalogNothingDone ==
  [][ExecutedDetached =>
       /\ NothingDone
       /\ IF last'.tag = "BACKGROUND_WORKER_COMMAND" THEN ~last'.out.raised
          ELSE RaisedArchiveIssue]_vars

C38_Detached ==
  /\ Left("DROP_CONNECTION") /\ ~last.cmd.hasCatalog /\ last.out.kind = "CArchiveIssue"
  /\ cat.log = <<>> /\ ~cat.avail
C38_LauncherDetached ==
  /\ Left("START_LAUNCHER") /\ ~last.cmd.hasCatalog /\ last.out.kind = "CArchiveIssue"
  /\ workers = {}
C38_WorkerHandleDetached ==
  Left("BACKGROUND_WORKER_COMMAND") /\ ~last.cmd.hasCatalog /\ ~last.out.raised

\* the other process has dropped an archive and returned
DroppedByOther ==
  result.op = "DROP_ARCHIVE" /\ ~result.val.out.raised /\ result.val.gone # {}

C37_DroppedAfterRegistration ==
  /\ Left("START_BASEBACKUP") /\ DroppedByOther /\ last.run.registered
  /\ result.val.at \in {"readTablespaceInfo", "stepTablespace", "end", "finalize"}
\* the archive was dropped between two tablespaces
C37_DroppedBetweenTablespaces ==
  /\ Left("START_BASEBACKUP") /\ DroppedByOther /\ result.val.at = "stepTablespace"
  /\ Calls("registerTablespaceForBackup") = 2

\* the members of a descriptor copy() is to take over, and those it is to leave
CopiedScalars(d) ==
  <<d.tag, d.id, d.archive_name, d.label, d.compression, d.directory,
    d.backup_profile, d.detach, d.affectedAttributes, d.coninfo.affectedAttributes>>
ConnectionFields(k) == <<k.type, k.pghost, k.pgport, k.pguser, k.pgdatabase, k.dsn>>
KeptMembers(d) == <<d.retention, d.interval, d.recoveryStream, d.catalog>>

C39_BytesReversed ==
  result.op = "uint64_to_host_byteorder" =>
    /\ \A i \in 0..7 : result.val.once[i + 1] = result.arg[(7 - i) + 1]
    /\ result.val.twice = result.arg

\* an argument whose bytes are not a palindrome, with a byte of every kind
C39_Witness ==
  /\ result.op = "uint64_to_host_byteorder"
  /\ result.arg = <<1, 255, 128, 128, 1, 1, 128, 255>>
  /\ result.val.once = <<255, 128, 1, 1, 128, 128, 255, 1>>
  /\ result.val.twice = result.arg

====
